---------------------------- MODULE Spec2Model ----------------------------
(***************************************************************************)
(* A model of printpdf's scene renderer (src/src/svg.rs) and document      *)
(* assembler (src/src/types/pdf_document.rs).                              *)
(*                                                                         *)
(* Three specifications share the variables:                               *)
(*   SpecShading  the shading function builder applied to a stop list;     *)
(*   SpecSvg      draw_svg walking a scene tree into the layer of a        *)
(*                one-page document, followed by save;                     *)
(*   Spec         the operations of PdfDocumentReference on a document.    *)
(***************************************************************************)
EXTENDS Integers, Sequences, FiniteSets, TLC

\* ------------------------------------------------------------------ bounds
\* the longest stop list of a gradient
MaxStops == 3
\* the largest stop offset (offsets are drawn from 0..MaxOffset)
MaxOffset == 2
\* the longest path data of the single-path scenes
MaxSegs == 4
\* the number of nodes below the root in the nested scenes
MaxNodes == 2
\* the number of pages a document grows to
MaxPages == 2
\* the number of layers a document grows to, over all its pages
MaxLayers == 3
\* the number of operators the caller adds to the layers of a document
MaxOps == 1
\* the number of layers of a page of the documents given to the export
MaxPerPage == 2
\* the number of operators in a layer of the documents given to the export
MaxBuf == 2

VARIABLES
    doc,        \* the PdfDocument inside Rc<RefCell<..>> (pdf_document.rs:20-36)
    handle,     \* the PdfDocumentReference: "live" or "consumed" (moved from)
    files,      \* what save handed to the store, one entry per save call
    tree,       \* the usvg::Tree given to draw_svg
    stack,      \* the call stack of draw_node / draw_group
    status,     \* draw_svg: "idle", "running", "returned" or "panicked"
    stops,      \* the stop list given to the shading function builder
    built,      \* what the builder returned
    ret,        \* what the last call on the document handle returned
    cell,       \* the Rc<RefCell<..>> around the document: the reference counts,
                \* the borrows that are active, and the call in progress
    rng         \* RAND_SEED and the call of random_character_string_32 in progress

vars == <<doc, handle, files, tree, stack, status, stops, built, ret, cell, rng>>

\* ------------------------------------------------------------ sequences
RECURSIVE Flatten(_)
Flatten(ss) == IF ss = <<>> THEN <<>> ELSE Head(ss) \o Flatten(Tail(ss))

\* the sequences over S of length at most n
SeqsUpTo(S, n) == UNION {[1..k -> S] : k \in 0..n}

\* ---------------------------------------------------------- object store
\* lopdf::Document: max_id counts the ids handed out, objects maps id -> payload.
EmptyStore == [max_id |-> 0, objects |-> <<>>, trailer |-> [Root |-> <<>>, Info |-> <<>>, ID |-> <<>>]]

\* new_object_id(): the next id of a monotonically increasing counter
NewObjectId(store) == store.max_id + 1

AfterNewObjectId(store) == [store EXCEPT !.max_id = @ + 1]

\* objects.insert(id, obj)
InsertObject(store, id, obj) ==
    [store EXCEPT !.objects = [k \in (DOMAIN @) \cup {id} |-> IF k = id THEN obj ELSE @[k]]]

\* add_object(obj): allocate the next id and insert the payload under it
AddObject(store, obj) ==
    InsertObject(AfterNewObjectId(store), NewObjectId(store), obj)

\* add_object for each payload of objs in turn
RECURSIVE AddObjects(_, _)
AddObjects(store, objs) ==
    IF objs = <<>> THEN store
    ELSE AddObjects(AddObject(store, Head(objs)), Tail(objs))

\* lopdf::Object values: a tag and a payload
Reference(id) == [Kind |-> "Reference", id |-> id]
Integer(n) == [Kind |-> "Integer", num |-> n]
Real(n) == [Kind |-> "Real", num |-> n, den |-> 1]
Name(n) == [Kind |-> "Name", name |-> n]
Array(a) == [Kind |-> "Array", items |-> a]

\* lopdf::content::Operation::new(operator, operands)
Operation(operator, operands) == [op |-> operator, args |-> operands]

\* ------------------------------------------------------ shading functions
Red == [red |-> 255, green |-> 0, blue |-> 0]
Blue == [red |-> 0, green |-> 128, blue |-> 255]
Colors == {Red, Blue}

\* a Real operand c / 255
Real255(c) == [Kind |-> "Real", num |-> c, den |-> 255]

\* color(c): the three channels, each divided by 255
color(c) == << Real255(c.red), Real255(c.green), Real255(c.blue) >>

\* stops.windows(2): the pairs of neighbours; none when there are fewer than two
Windows2(s) == [i \in 1..(IF Len(s) >= 2 THEN Len(s) - 1 ELSE 0) |-> <<s[i], s[i + 1]>>]

\* one two-colour sub-function of a window
SubFunction(w) ==
    [FunctionType |-> 2, Domain |-> <<Integer(0), Integer(1)>>,
     C0 |-> color(w[1].color), C1 |-> color(w[2].color), N |-> 1]

\* stops[1..stops.len() - 1] aborts when the range is not a range of the slice:
\* with no stop, len - 1 underflows (an overflow abort, or a wrapped end beyond
\* the slice); with one stop the range starts at 1 and ends at 0.
BoundsSlicePanics(s) == Len(s) = 0 \/ 1 > Len(s) - 1

\* a variant slicing stops[0..len - 2]: the first stop's offset is taken and
\* the last interior one is left out
BoundsOfFromFirst(s) == [i \in 1..(Len(s) - 2) |-> Real(s[i].offset)]

\* the offsets of stops[1..len - 1], the stops strictly between first and last
BoundsOf(s) == [i \in 1..(Len(s) - 2) |-> Real(s[i + 1].offset)]

\* stops.len().checked_sub(1).unwrap_or(0)
CheckedSub1Or0(n) == IF n >= 1 THEN n - 1 ELSE 0

\* [0, 1].cycle().take(2 * (len - 1))
EncodeOf(s) == [i \in 1..(2 * CheckedSub1Or0(Len(s))) |-> Integer((i - 1) % 2)]

\* the "Function" dictionary, given its Functions entry
StitchingFunction(functions, s) ==
    [FunctionType |-> 3, Domain |-> <<Integer(0), Integer(1)>>,
     Functions |-> functions, Bounds |-> BoundsOf(s), Encode |-> EncodeOf(s)]

Panicked == [panicked |-> TRUE]

\* linear_gradient_shading(layer, lg): the shading dictionary, or the abort
linear_gradient_shading(s) ==
    IF BoundsSlicePanics(s) THEN Panicked
    ELSE [panicked |-> FALSE,
          ShadingType |-> 2,
          Function |-> StitchingFunction([i \in DOMAIN Windows2(s) |-> SubFunction(Windows2(s)[i])], s)]

\* linear_gradient(layer, lg): the sub-functions, the stitching function, the
\* shading and the pattern are added to the store in this order; the result is
\* the store afterwards and the pattern's id.  The sub-functions are added
\* before the Bounds entry is evaluated.
linear_gradient(store, s) ==
    LET subs    == [i \in DOMAIN Windows2(s) |-> SubFunction(Windows2(s)[i])]
        st1     == AddObjects(store, subs)
        refs    == [i \in DOMAIN subs |-> Reference(store.max_id + i)]
        st2     == AddObject(st1, StitchingFunction(refs, s))
        st3     == AddObject(st2, [ShadingType |-> 2, Function |-> Reference(st2.max_id)])
        st4     == AddObject(st3, [Type |-> "Pattern", PatternType |-> 2,
                                   Shading |-> Reference(st3.max_id)])
    IN  IF BoundsSlicePanics(s)
        THEN [panicked |-> TRUE, store |-> st1]
        ELSE [panicked |-> FALSE, store |-> st4, id |-> st4.max_id]

\* ----------------------------------------------------------- identifiers
\* Option<T>: None is <<>>, Some(x) is <<x>>
None == <<>>
Some(x) == <<x>>

\* const MAX_CHARS
MAX_CHARS == 32

\* format!("{}", rand()): the decimal digits of a usize, one at least and
\* twenty at most; which number rand() gives is left open, so a stream names
\* the digit counts of the successive calls, over and over
DigitStreams == {<<1>>, <<19, 20>>, <<20, 13>>}

\* for ch in rand.chars(): a character is pushed while char_pos < MAX_CHARS,
\* and the first one beyond leaves both loops; the position afterwards
RECURSIVE PushChars(_, _)
PushChars(char_pos, chars) ==
    IF chars = 0 \/ char_pos >= MAX_CHARS THEN char_pos
    ELSE PushChars(char_pos + 1, chars - 1)

\* 'outer: while char_pos < MAX_CHARS, with the k-th call of rand()
RECURSIVE FillString(_, _, _)
FillString(char_pos, digits, k) ==
    IF char_pos >= MAX_CHARS THEN char_pos
    ELSE FillString(PushChars(char_pos, digits[((k - 1) % Len(digits)) + 1]), digits, k + 1)

\* random_character_string_32(): the identifier generated at the place
\* named; len is the length of final_string
random_character_string_32(at, digits) ==
    [given |-> FALSE, at |-> at, len |-> FillString(0, digits, 1), text |-> ""]

\* an identifier the caller gives
GivenId(text) == [given |-> TRUE, at |-> "caller", len |-> Len(text), text |-> text]
GivenTexts == {"id", "uuid7"}

\* ------------------------------------------------------------- documents
LayerNames == {"Layer 1", "Layer 2"}
Titles == {"PDF_Document_title", "Other title"}
BuiltinFonts == {"Helvetica", "Courier"}

\* the page size of the demonstration document
PageSize == 500

\* PdfLayer::new(name): an empty operator buffer and an empty resource table
PdfLayerNew(name) == [name |-> name, operations |-> <<>>, patterns |-> <<>>]

\* PdfPage::new(width, height, layer name, index): a page with one layer
PdfPageNew(width, height, name, index) ==
    [index |-> index, width |-> width, height |-> height,
     layers |-> <<PdfLayerNew(name)>>]

\* the fields PdfDocument::new and PdfDocument::empty both set
NewDocFields(title, digits) ==
    [pages |-> <<>>,
     document_id |-> random_character_string_32("new", digits),
     instance_id |-> None,
     fonts |-> <<>>,
     inner_doc |-> EmptyStore,
     metadata |-> [document_title |-> title]]

\* PdfDocument::new: the document with its initial page pushed, index 0
PdfDocumentNew(title, name, digits) ==
    [NewDocFields(title, digits) EXCEPT !.pages = Append(@, PdfPageNew(PageSize, PageSize, name, 0))]

\* PdfDocument::empty: no page
PdfDocumentEmpty(title, digits) == NewDocFields(title, digits)

\* the layer operations append to the buffer of layer l of page p (1-based here)
LayerOps(d, p, l) == d.pages[p].layers[l].operations

\* add_ops(ops) on layer l of page p
add_ops(d, p, l, ops) ==
    [d EXCEPT !.pages[p].layers[l].operations = @ \o ops]

\* add_op(op)
add_op(d, p, l, op) == add_ops(d, p, l, <<op>>)

\* add_pattern(shading): the shading joins the layer's resource table and gets
\* the next pattern name of the layer
PatternName(d, p, l) == Name(<<"P", Len(d.pages[p].layers[l].patterns) + 1>>)

add_pattern(d, p, l, shading) ==
    [d EXCEPT !.pages[p].layers[l].patterns = Append(@, shading)]

\* ---------------------------------------------------------- scene trees
\* svgtypes::Transform, six components
Transform(a, b, c, d, e, f) == [a |-> a, b |-> b, c |-> c, d |-> d, e |-> e, f |-> f]
Identity == Transform(1, 0, 0, 1, 0, 0)
Scale2 == Transform(2, 0, 0, 2, 3, 4)

\* Option<usvg::Fill>: None, a solid colour, or a link to a definition
NoFill == [kind |-> "None", color |-> Red, opacity |-> 1, id |-> <<"none", 0>>]
ColorFill(c) == [kind |-> "Color", color |-> c, opacity |-> 1, id |-> <<"none", 0>>]
LinkFill(id) == [kind |-> "Link", color |-> Red, opacity |-> 1, id |-> id]

\* Option<usvg::Stroke>: None, or a stroke whose paint is a colour or a link
NoStroke == [kind |-> "None", color |-> Red, width |-> 0, linecap |-> "Butt",
             dasharray |-> <<>>, dashoffset |-> 0]
ColorStroke(c, cap) == [kind |-> "Color", color |-> c, width |-> 5, linecap |-> cap,
                        dasharray |-> <<>>, dashoffset |-> 0]
LinkStroke(cap) == [kind |-> "Link", color |-> Red, width |-> 5, linecap |-> cap,
                    dasharray |-> <<2, 1>>, dashoffset |-> 1]

SegKinds == {"MoveTo", "LineTo", "CurveTo", "ClosePath"}

\* the segment of kind k at position i of a path; its coordinates tell the
\* positions apart
Segment(k, i) ==
    [kind |-> k, x |-> 10 * i, y |-> 10 * i + 1,
     x1 |-> 10 * i + 2, y1 |-> 10 * i + 3, x2 |-> 10 * i + 4, y2 |-> 10 * i + 5]

PathData(kinds) == [i \in DOMAIN kinds |-> Segment(kinds[i], i)]

\* the definitions of a scene: a linear gradient of k stops for each k, a
\* radial gradient, and one id that names no definition
StopsOfLength(k) ==
    [i \in 1..k |-> [offset |-> IF i - 1 <= MaxOffset THEN i - 1 ELSE MaxOffset,
                     color |-> IF i % 2 = 1 THEN Red ELSE Blue]]

Defs ==
    [id \in ({"lg"} \X (0..MaxStops)) \cup {<<"rg", 0>>} |->
        IF id[1] = "lg"
        THEN [kind |-> "LinearGradient", stops |-> StopsOfLength(id[2])]
        ELSE [kind |-> "RadialGradient", stops |-> <<>>]]

Missing == <<"missing", 0>>
LinkIds == (DOMAIN Defs) \cup {Missing}

\* a node of the tree: its kind, its parent's position (0 for the root) and,
\* for a Group or a Path, what the kind carries
Node(kind, parent, transform, fill, stroke, data) ==
    [kind |-> kind, parent |-> parent, transform |-> transform,
     fill |-> fill, stroke |-> stroke, data |-> data]

SvgNode == Node("Svg", 0, Identity, NoFill, NoStroke, <<>>)
GroupNode(parent, t) == Node("Group", parent, t, NoFill, NoStroke, <<>>)
OtherNode(parent) == Node("Other", parent, Identity, NoFill, NoStroke, <<>>)
PathNode(parent, path) == Node("Path", parent, path.transform, path.fill, path.stroke, path.data)

Path(t, fill, stroke, kinds) ==
    [transform |-> t, fill |-> fill, stroke |-> stroke, data |-> PathData(kinds)]

\* node.children(): the positions of the nodes whose parent is n, in order
RECURSIVE ChildrenFrom(_, _, _)
ChildrenFrom(nodes, n, j) ==
    IF j > Len(nodes) THEN <<>>
    ELSE (IF nodes[j].parent = n THEN <<j>> ELSE <<>>) \o ChildrenFrom(nodes, n, j + 1)

Children(nodes, n) == ChildrenFrom(nodes, n, 1)

\* tree.defs_by_id(id)
HasDef(t, id) == id \in DOMAIN t.defs

\* ------------------------------------------------------- layer operators
\* what the layer's setters put into its buffer
save_graphics_state == Operation("q", <<>>)
restore_graphics_state == Operation("Q", <<>>)
set_fill_color(c) == Operation("rg", color(c))
set_fill_alpha(a) == Operation("gs", <<Real(a)>>)
set_outline_thickness(w) == Operation("w", <<Real(w)>>)
set_line_cap_style(cap) == Operation("J", <<Name(cap)>>)
set_outline_color(c) == Operation("RG", color(c))

\* apply_transform(layer, transform): one cm with the six components
apply_transform(t) ==
    Operation("cm", <<Real(t.a), Real(t.b), Real(t.c), Real(t.d), Real(t.e), Real(t.f)>>)

\* the cm of the root: a translation cancelling the view box's origin
ViewBoxTransform(vb) ==
    Operation("cm", <<Real(1), Real(0), Real(0), Real(1), Real(0 - vb.x), Real(0 - vb.y)>>)

\* usvg::LineCap -> LineCapStyle
LineCapStyle(cap) ==
    CASE cap = "Butt" -> "Butt"
      [] cap = "Round" -> "Round"
      [] cap = "Square" -> "ProjectingSquare"

\* ------------------------------------------------------------- draw_path
\* the fill settings: colour and alpha, for a solid fill only
FillSettings(fill) ==
    IF fill.kind = "Color"
    THEN <<set_fill_color(fill.color), set_fill_alpha(fill.opacity)>>
    ELSE <<>>

\* the stroke settings: dash, width, cap, and the colour of a solid stroke
StrokeSettings(stroke) ==
    IF stroke.kind # "None"
    THEN << Operation("d", <<Array([i \in DOMAIN stroke.dasharray |-> Integer(stroke.dasharray[i])]),
                             Integer(stroke.dashoffset)>>),
            set_outline_thickness(stroke.width),
            set_line_cap_style(LineCapStyle(stroke.linecap)) >>
         \o (IF stroke.kind = "Color" THEN <<set_outline_color(stroke.color)>> ELSE <<>>)
    ELSE <<>>

\* the operator of one segment; ClosePath has none
SegmentOp(s) ==
    CASE s.kind = "MoveTo" -> <<Operation("m", <<Real(s.x), Real(s.y)>>)>>
      [] s.kind = "LineTo" -> <<Operation("l", <<Real(s.x), Real(s.y)>>)>>
      [] s.kind = "CurveTo" ->
            <<Operation("c", <<Real(s.x1), Real(s.y1), Real(s.x2), Real(s.y2), Real(s.x), Real(s.y)>>)>>
      [] s.kind = "ClosePath" -> <<>>

\* the loop over path.data: the operators pushed to ops
SegmentOps(data) == Flatten([i \in DOMAIN data |-> SegmentOp(data[i])])

\* the loop over path.data: closed is set by any ClosePath
Closed(data) == \E i \in DOMAIN data : data[i].kind = "ClosePath"

\* a variant of the table whose second row paints fill and stroke
PaintOperatorFillStroke(stroke, fill, closed) ==
    CASE stroke /\ fill /\ closed -> "b"
      [] stroke /\ fill /\ ~closed -> "B"
      [] stroke /\ ~fill /\ closed -> "s"
      [] stroke /\ ~fill /\ ~closed -> "S"
      [] ~stroke /\ fill -> "f"
      [] OTHER -> "n"

\* match (path.stroke.is_some(), path.fill.is_some(), closed)
PaintOperator(stroke, fill, closed) ==
    CASE stroke /\ fill /\ closed -> "b"
      [] stroke /\ fill /\ ~closed -> "f"
      [] stroke /\ ~fill /\ closed -> "s"
      [] stroke /\ ~fill /\ ~closed -> "S"
      [] ~stroke /\ fill -> "f"
      [] OTHER -> "n"

\* the gradient branch: clip to the path and paint the shading
ShadingOps(pattern) ==
    << Operation("h", <<>>), Operation("W", <<>>), Operation("n", <<>>),
       Operation("sh", <<pattern>>) >>

\* draw_path(layer, path, tree) on layer l of page p of document d: the
\* document afterwards, and whether the call aborted on the way
draw_path(d, p, l, path, t) ==
    LET d1 == add_ops(d, p, l,
                  <<save_graphics_state>> \o FillSettings(path.fill)
                  \o StrokeSettings(path.stroke) \o <<apply_transform(path.transform)>>)
        ops == SegmentOps(path.data)
        restored(dd) == [doc |-> add_op(dd, p, l, restore_graphics_state), panicked |-> FALSE]
    IN  IF path.fill.kind = "Link"
        THEN IF HasDef(t, path.fill.id) /\ t.defs[path.fill.id].kind = "LinearGradient"
             THEN LET shading == linear_gradient_shading(t.defs[path.fill.id].stops)
                  IN  IF shading.panicked
                      THEN [doc |-> d1, panicked |-> TRUE]
                      ELSE restored(add_ops(add_pattern(d1, p, l, shading), p, l,
                                            ops \o ShadingOps(PatternName(d1, p, l))))
             ELSE restored(d1)
        ELSE restored(add_ops(d1, p, l,
                 Append(ops, Operation(PaintOperator(path.stroke.kind # "None",
                                                     path.fill.kind # "None",
                                                     Closed(path.data)), <<>>))))

\* ------------------------------------------------------------------ save

\* the number of layers of the pages before page i
RECURSIVE LayersBefore(_, _)
LayersBefore(pages, i) ==
    IF i <= 1 THEN 0 ELSE LayersBefore(pages, i - 1) + Len(pages[i - 1].layers)

\* the OCG dictionary of one layer
OcgDict(name, intent_ref, usage_ref) ==
    [Type |-> "OCG", Name |-> name, Intent |-> Reference(intent_ref), Usage |-> Reference(usage_ref)]

\* the OCG dictionaries in the order they are added: page by page, layer by layer
OcgDicts(pages, intent_ref, usage_ref) ==
    Flatten([i \in DOMAIN pages |->
        [j \in DOMAIN pages[i].layers |-> OcgDict(pages[i].layers[j].name, intent_ref, usage_ref)]])

\* ocg_list: for each page, its index field and (layer index, reference) pairs;
\* first is the id of the first OCG dictionary added
OcgList(pages, first) ==
    [i \in DOMAIN pages |->
        [page_idx |-> pages[i].index,
         layers |-> [j \in DOMAIN pages[i].layers |->
                        <<j - 1, Reference(first + LayersBefore(pages, i) + j - 1)>>]]]

\* a variant collecting the references layer-major: the first layers of all
\* pages, then the second ones
FlattenedOcgListLayerMajor(ocg_list) ==
    Flatten([j \in 1..MaxLayers |->
        Flatten([i \in DOMAIN ocg_list |->
            IF j \in DOMAIN ocg_list[i].layers THEN <<ocg_list[i].layers[j][2]>> ELSE <<>>])])

\* flattened_ocg_list: the references alone
FlattenedOcgList(ocg_list) ==
    Flatten([i \in DOMAIN ocg_list |->
        [j \in DOMAIN ocg_list[i].layers |-> ocg_list[i].layers[j][2]]])

\* ocg_list.iter().find(|e| e.0 == idx): the first entry of that page index
FindOcg(ocg_list, idx) ==
    LET hits == {i \in DOMAIN ocg_list : ocg_list[i].page_idx = idx}
    IN  IF hits = {} THEN None
        ELSE Some(ocg_list[CHOOSE i \in hits : \A k \in hits : i <= k])

\* FontList::into_with_document: each font's object is inserted under the id
\* allocated at registration; the dictionary maps the font's name to that id
FontsIntoDocument(store, fonts) ==
    [store |-> [store EXCEPT !.objects =
                    [k \in (DOMAIN @) \cup {fonts[i].inner_obj : i \in DOMAIN fonts} |->
                        IF \E i \in DOMAIN fonts : fonts[i].inner_obj = k
                        THEN [Type |-> "Font",
                              BaseFont |-> fonts[CHOOSE i \in DOMAIN fonts : fonts[i].inner_obj = k].name]
                        ELSE @[k]]],
     dict |-> [i \in DOMAIN fonts |-> <<fonts[i].name, Reference(fonts[i].inner_obj)>>]]

\* PdfPage::collect_resources_and_streams: the union of the layers' resource
\* tables, and one stream per layer holding the layer's buffer
CollectResources(page) == Flatten([j \in DOMAIN page.layers |-> page.layers[j].patterns])

CollectStreams(page) == [j \in DOMAIN page.layers |-> page.layers[j].operations]

\* a sequence back to front
Reverse(q) == [i \in DOMAIN q |-> q[Len(q) + 1 - i]]

\* a variant of the loop body that merges the layers' streams last to first
ExportPageLastLayerFirst(store, page, pages_id, font_dict_id) ==
    LET patterns   == CollectResources(page)
        resources  == [Pattern |-> patterns, Font |-> font_dict_id]
        nonempty   == Len(patterns) > 0 \/ font_dict_id # None
        st1        == IF nonempty THEN AddObject(store, [Type |-> "Resources", dict |-> resources])
                      ELSE store
        merged     == Flatten(Reverse(CollectStreams(page)))
        st2        == AddObject(st1, [Type |-> "Stream", content |-> merged])
        p          == [Type |-> "Page",
                       MediaBox |-> <<0, 0, page.width, page.height>>,
                       Parent |-> Reference(pages_id),
                       Resources |-> IF nonempty THEN Some(Reference(st1.max_id)) ELSE None,
                       Contents |-> Reference(st2.max_id)]
    IN  AddObject(st2, p)

\* a variant of the loop body that adds the resources whether or not the
\* dictionary is empty
ExportPageAlwaysResources(store, page, pages_id, font_dict_id) ==
    LET patterns   == CollectResources(page)
        resources  == [Pattern |-> patterns, Font |-> font_dict_id]
        st1        == AddObject(store, [Type |-> "Resources", dict |-> resources])
        merged     == Flatten(CollectStreams(page))
        st2        == AddObject(st1, [Type |-> "Stream", content |-> merged])
        p          == [Type |-> "Page",
                       MediaBox |-> <<0, 0, page.width, page.height>>,
                       Parent |-> Reference(pages_id),
                       Resources |-> Some(Reference(st1.max_id)),
                       Contents |-> Reference(st2.max_id)]
    IN  AddObject(st2, p)

\* a variant of the loop body that adds a copy of the font dictionary for
\* the page and refers to the copy
ExportPageOwnFonts(store, page, pages_id, font_dict_id) ==
    LET st0        == IF font_dict_id # None
                      THEN AddObject(store, store.objects[font_dict_id[1].id])
                      ELSE store
        own_id     == IF font_dict_id # None THEN Some(Reference(st0.max_id)) ELSE None
        patterns   == CollectResources(page)
        resources  == [Pattern |-> patterns, Font |-> own_id]
        nonempty   == Len(patterns) > 0 \/ own_id # None
        st1        == IF nonempty THEN AddObject(st0, [Type |-> "Resources", dict |-> resources])
                      ELSE st0
        merged     == Flatten(CollectStreams(page))
        st2        == AddObject(st1, [Type |-> "Stream", content |-> merged])
        p          == [Type |-> "Page",
                       MediaBox |-> <<0, 0, page.width, page.height>>,
                       Parent |-> Reference(pages_id),
                       Resources |-> IF nonempty THEN Some(Reference(st1.max_id)) ELSE None,
                       Contents |-> Reference(st2.max_id)]
    IN  AddObject(st2, p)

\* a variant of the loop body that refers to the resources by the id the
\* store handed out last, which by then is the stream's
ExportPageLastId(store, page, pages_id, font_dict_id) ==
    LET patterns   == CollectResources(page)
        resources  == [Pattern |-> patterns, Font |-> font_dict_id]
        nonempty   == Len(patterns) > 0 \/ font_dict_id # None
        st1        == IF nonempty THEN AddObject(store, [Type |-> "Resources", dict |-> resources])
                      ELSE store
        merged     == Flatten(CollectStreams(page))
        st2        == AddObject(st1, [Type |-> "Stream", content |-> merged])
        p          == [Type |-> "Page",
                       MediaBox |-> <<0, 0, page.width, page.height>>,
                       Parent |-> Reference(pages_id),
                       Resources |-> IF nonempty THEN Some(Reference(st2.max_id)) ELSE None,
                       Contents |-> Reference(st2.max_id)]
    IN  AddObject(st2, p)

\* the loop body of one page: resources, merged stream and page object are added
ExportPage(store, page, pages_id, font_dict_id) ==
    LET patterns   == CollectResources(page)
        resources  == [Pattern |-> patterns, Font |-> font_dict_id]
        nonempty   == Len(patterns) > 0 \/ font_dict_id # None
        st1        == IF nonempty THEN AddObject(store, [Type |-> "Resources", dict |-> resources])
                      ELSE store
        merged     == Flatten(CollectStreams(page))
        st2        == AddObject(st1, [Type |-> "Stream", content |-> merged])
        p          == [Type |-> "Page",
                       MediaBox |-> <<0, 0, page.width, page.height>>,
                       Parent |-> Reference(pages_id),
                       Resources |-> IF nonempty THEN Some(Reference(st1.max_id)) ELSE None,
                       Contents |-> Reference(st2.max_id)]
    IN  AddObject(st2, p)

\* for (idx, page) in doc.pages.into_iter().enumerate(): the store and the
\* page ids after the pages from position i on; the lookup of a page's OCG
\* entries aborts the call when it finds none
RECURSIVE ExportPages(_, _, _, _, _, _, _)
ExportPages(store, pages, i, ocg_list, pages_id, font_dict_id, page_ids) ==
    IF i > Len(pages) THEN [store |-> store, page_ids |-> page_ids, panicked |-> FALSE]
    ELSE IF FindOcg(ocg_list, i - 1) = None
         THEN [store |-> store, page_ids |-> page_ids, panicked |-> TRUE]
         ELSE LET st == ExportPage(store, pages[i], pages_id, font_dict_id)
              IN  ExportPages(st, pages, i + 1, ocg_list, pages_id, font_dict_id,
                              Append(page_ids, Reference(st.max_id)))

\* a variant that generates the instance id whether or not one was given
SaveInstanceIdAlwaysFresh(instance_id, digits) == random_character_string_32("save", digits)

\* doc.instance_id.unwrap_or_else(|| random_character_string_32())
SaveInstanceId(instance_id, digits) ==
    IF instance_id = None THEN random_character_string_32("save", digits) ELSE instance_id[1]

\* the object graph save builds from document d, up to the trailer; xmp and
\* icc tell whether the metadata yields an XML stream and an ICC profile
BuildGraph(d, xmp, icc, instance_id) ==
    LET pages_id    == NewObjectId(d.inner_doc)
        st0         == AfterNewObjectId(d.inner_doc)
        st1         == IF xmp THEN AddObject(st0, [Type |-> "Metadata",
                                                   title |-> d.metadata.document_title])
                       ELSE st0
        xmp_id      == IF xmp THEN Some(st1.max_id) ELSE None
        st2         == AddObject(st1, [Type |-> "Info", Title |-> d.metadata.document_title])
        info_id     == st2.max_id
        st3         == IF icc THEN AddObject(st2, [Type |-> "IccProfile"]) ELSE st2
        icc_id      == IF icc THEN Some(Reference(st3.max_id)) ELSE None
        st4         == AddObject(st3, [Type |-> "OCGUsage"])
        usage_ref   == st4.max_id
        st5         == AddObject(st4, [Type |-> "Intent"])
        intent_ref  == st5.max_id
        st6         == AddObjects(st5, OcgDicts(d.pages, intent_ref, usage_ref))
        ocg_list    == OcgList(d.pages, st5.max_id + 1)
        flattened   == FlattenedOcgList(ocg_list)
        fonts       == FontsIntoDocument(st6, d.fonts)
        st7         == IF Len(fonts.dict) > 0
                       THEN AddObject(fonts.store, [Type |-> "FontDict", dict |-> fonts.dict])
                       ELSE fonts.store
        font_dict_id == IF Len(fonts.dict) > 0 THEN Some(Reference(st7.max_id)) ELSE None
        loop        == ExportPages(st7, d.pages, 1, ocg_list, pages_id, font_dict_id, <<>>)
        pages       == [Type |-> "Pages", Count |-> Len(d.pages), Kids |-> loop.page_ids]
        st8         == InsertObject(loop.store, pages_id, pages)
        catalog     == [Type |-> "Catalog",
                        Pages |-> Reference(pages_id),
                        OutputIntents |-> icc_id,
                        Metadata |-> IF xmp THEN Some(Reference(xmp_id[1])) ELSE None,
                        OCProperties |-> [OCGs |-> flattened, Order |-> flattened, ON |-> flattened]]
        st9         == AddObject(st8, catalog)
        trailer     == [Root |-> Reference(st9.max_id), Info |-> Reference(info_id),
                        ID |-> <<d.document_id, instance_id>>]
    IN  IF loop.panicked
        THEN [panicked |-> TRUE, inner_doc |-> loop.store, pages_id |-> pages_id]
        ELSE [panicked |-> FALSE, inner_doc |-> [st9 EXCEPT !.trailer = trailer],
              pages_id |-> pages_id]

\* a variant that compresses before it prunes
optimize_compress_first(release) ==
    IF release THEN <<"compress", "prune_objects", "delete_zero_length_streams">> ELSE <<>>

\* Self::optimize: nothing in a debug build, the three passes in a release build
optimize(release) ==
    IF release THEN <<"prune_objects", "delete_zero_length_streams", "compress">> ELSE <<>>

\* ------------------------------------------------------- actions: builder
\* what a call on the document handle returned: the call, whether it came
\* back Ok (or plainly), and the index or name it carried
NoCall == [call |-> "none", ok |-> TRUE, index |-> 0, name |-> ""]
Returned(call, ok, index, name) == [call |-> call, ok |-> ok, index |-> index, name |-> name]

NotBuilt == [kind |-> "none"]

\* linear_gradient_shading applied to the stop list
BuildShading ==
    /\ built.kind = "none"
    /\ built' = [kind |-> "shading", result |-> linear_gradient_shading(stops)]
    /\ UNCHANGED <<doc, handle, files, tree, stack, status, stops, ret, cell, rng>>

\* linear_gradient applied to the stop list: its objects go to the document's store
BuildGradient ==
    /\ built.kind = "none"
    /\ LET r == linear_gradient(doc.inner_doc, stops)
       IN  /\ built' = [kind |-> "gradient", result |-> r, before |-> doc.inner_doc.max_id]
           /\ doc' = [doc EXCEPT !.inner_doc = r.store]
    /\ UNCHANGED <<handle, files, tree, stack, status, stops, ret, cell, rng>>

\* ------------------------------------------------------ actions: renderer
\* the layer draw_svg is given: the initial layer of the initial page
DrawPage == 1
DrawLayer == 1

NodeFrame(n) == [t |-> "node", n |-> n]
RestoreFrame(n) == [t |-> "restore", n |-> n]

\* the status once the frames in st remain
StatusOf(st) == IF st = <<>> THEN "returned" ELSE "running"

TopIs(kind) ==
    /\ status = "running"
    /\ stack # <<>>
    /\ Head(stack).t = "node"
    /\ tree.nodes[Head(stack).n].kind = kind

\* a variant of draw_node that returns after draw_group without the restore
GroupFramesNoRestore(n) ==
    [i \in DOMAIN Children(tree.nodes, n) |-> NodeFrame(Children(tree.nodes, n)[i])]

\* draw_group's loop, then the restore that follows it in draw_node
GroupFrames(n) ==
    [i \in DOMAIN Children(tree.nodes, n) |-> NodeFrame(Children(tree.nodes, n)[i])]
    \o <<RestoreFrame(n)>>

\* draw_svg: draw_node on the root
DrawSvg ==
    /\ status = "idle"
    /\ handle = "live"
    /\ stack' = <<NodeFrame(1)>>
    /\ status' = "running"
    /\ UNCHANGED <<doc, handle, files, tree, stops, built, ret, cell, rng>>

\* a variant of draw_node on the Svg node that saves and emits no cm
DrawNodeSvgNoCm ==
    /\ TopIs("Svg")
    /\ doc' = add_op(doc, DrawPage, DrawLayer, save_graphics_state)
    /\ stack' = GroupFrames(Head(stack).n) \o Tail(stack)
    /\ UNCHANGED <<handle, files, tree, status, stops, built, ret, cell, rng>>

\* a variant of draw_node on the Svg node that emits the cm before the save
DrawNodeSvgCmFirst ==
    /\ TopIs("Svg")
    /\ doc' = add_op(add_op(doc, DrawPage, DrawLayer, ViewBoxTransform(tree.view_box)),
                     DrawPage, DrawLayer, save_graphics_state)
    /\ stack' = GroupFrames(Head(stack).n) \o Tail(stack)
    /\ UNCHANGED <<handle, files, tree, status, stops, built, ret, cell, rng>>

\* draw_node on the Svg node: save, the view box's cm, then the children
DrawNodeSvg ==
    /\ TopIs("Svg")
    /\ doc' = add_op(add_op(doc, DrawPage, DrawLayer, save_graphics_state),
                     DrawPage, DrawLayer, ViewBoxTransform(tree.view_box))
    /\ stack' = GroupFrames(Head(stack).n) \o Tail(stack)
    /\ UNCHANGED <<handle, files, tree, status, stops, built, ret, cell, rng>>

\* draw_node on a Group: save, the group's cm, then the children
DrawNodeGroup ==
    /\ TopIs("Group")
    /\ doc' = add_op(add_op(doc, DrawPage, DrawLayer, save_graphics_state),
                     DrawPage, DrawLayer, apply_transform(tree.nodes[Head(stack).n].transform))
    /\ stack' = GroupFrames(Head(stack).n) \o Tail(stack)
    /\ UNCHANGED <<handle, files, tree, status, stops, built, ret, cell, rng>>

\* draw_node on a Path: draw_path, which returns or aborts
DrawNodePath ==
    /\ TopIs("Path")
    /\ LET r == draw_path(doc, DrawPage, DrawLayer, tree.nodes[Head(stack).n], tree)
       IN  /\ doc' = r.doc
           /\ stack' = IF r.panicked THEN stack ELSE Tail(stack)
           /\ status' = IF r.panicked THEN "panicked" ELSE StatusOf(Tail(stack))
    /\ UNCHANGED <<handle, files, tree, stops, built, ret, cell, rng>>

\* draw_node on any other kind: nothing
DrawNodeOther ==
    /\ TopIs("Other")
    /\ stack' = Tail(stack)
    /\ status' = StatusOf(Tail(stack))
    /\ UNCHANGED <<doc, handle, files, tree, stops, built, ret, cell, rng>>

\* the end of draw_group in draw_node: restore
GroupReturn ==
    /\ status = "running"
    /\ stack # <<>>
    /\ Head(stack).t = "restore"
    /\ doc' = add_op(doc, DrawPage, DrawLayer, restore_graphics_state)
    /\ stack' = Tail(stack)
    /\ status' = StatusOf(Tail(stack))
    /\ UNCHANGED <<handle, files, tree, stops, built, ret, cell, rng>>

\* Rc::try_unwrap(self.document).unwrap(): fails unless the handle is the one
\* strong reference
TryUnwrapFails(c) == c.strong # 1

\* save aborted by that unwrap: nothing was built
UnwrapPanicked(d) == [panicked |-> TRUE, inner_doc |-> d.inner_doc, pages_id |-> 0]

\* the handle is moved into a call that does not give it back: its strong
\* reference is gone when the call ends
HandleDropped(c) == [c EXCEPT !.strong = @ - 1]

\* a variant of save that borrows the handle (save(&self, target)) and so
\* leaves it usable
SaveWithBorrowed(xmp, icc, release, io_ok) ==
    /\ handle = "live"
    /\ status \in {"idle", "returned"}
    /\ \E instance_id \in {SaveInstanceId(doc.instance_id, digits) : digits \in DigitStreams} :
       \E g \in {BuildGraph(doc, xmp, icc, instance_id)} :
           /\ files' = Append(files,
                [graph |-> g,
                 release |-> release,
                 io |-> io_ok,
                 post |-> IF g.panicked THEN <<>> ELSE optimize(release),
                 calls |-> IF g.panicked THEN <<>> ELSE optimize(release) \o <<"save_to">>,
                 result |-> IF g.panicked THEN "panic" ELSE IF io_ok THEN "Ok" ELSE "Err"])
           /\ ret' = Returned("save", ~g.panicked /\ io_ok, 0,
                               IF g.panicked THEN "panic" ELSE IF io_ok THEN "Ok" ELSE "Err")
    /\ UNCHANGED <<doc, handle, tree, stack, status, stops, built, cell, rng>>

\* ------------------------------------------------------ actions: document
\* save(self, target): the handle is moved into the call; the graph is built,
\* optimized and handed to save_to, whose outcome is the call's
SaveWith(xmp, icc, release, io_ok) ==
    /\ handle = "live"
    /\ status \in {"idle", "returned"}
    /\ \E instance_id \in {SaveInstanceId(doc.instance_id, digits) : digits \in DigitStreams} :
       \E g \in {IF TryUnwrapFails(cell) THEN UnwrapPanicked(doc)
                 ELSE BuildGraph(doc, xmp, icc, instance_id)} :
           /\ files' = Append(files,
                [graph |-> g,
                 release |-> release,
                 io |-> io_ok,
                 post |-> IF g.panicked THEN <<>> ELSE optimize(release),
                 calls |-> IF g.panicked THEN <<>> ELSE optimize(release) \o <<"save_to">>,
                 result |-> IF g.panicked THEN "panic" ELSE IF io_ok THEN "Ok" ELSE "Err"])
           /\ ret' = Returned("save", ~g.panicked /\ io_ok, 0,
                               IF g.panicked THEN "panic" ELSE IF io_ok THEN "Ok" ELSE "Err")
    /\ handle' = "consumed"
    /\ cell' = HandleDropped(cell)
    /\ UNCHANGED <<doc, tree, stack, status, stops, built, rng>>

Save == \E xmp \in BOOLEAN, icc \in BOOLEAN, release \in BOOLEAN, io_ok \in BOOLEAN :
            SaveWith(xmp, icc, release, io_ok)

\* the export that follows the rendering: the store writes without error
SaveDrawn ==
    /\ status = "returned"
    /\ SaveWith(TRUE, FALSE, FALSE, TRUE)

RECURSIVE SumLen(_)
SumLen(ss) == IF ss = <<>> THEN 0 ELSE Len(Head(ss)) + SumLen(Tail(ss))

TotalLayers(d) == SumLen([i \in DOMAIN d.pages |-> d.pages[i].layers])

TotalOps(d) ==
    SumLen(Flatten([i \in DOMAIN d.pages |->
        [j \in DOMAIN d.pages[i].layers |-> d.pages[i].layers[j].operations]]))

\* a variant that numbers the pages from one
add_page_one_based(d, name) ==
    [d EXCEPT !.pages = Append(@, PdfPageNew(PageSize, PageSize, name, Len(d.pages) + 1))]

\* add_page(x, y, name): a page whose index is the page count before the call
add_page(d, name) ==
    [d EXCEPT !.pages = Append(@, PdfPageNew(PageSize, PageSize, name, Len(d.pages)))]

\* a variant that returns the page count after the push
add_page_index_after_push(d, name) == Len(add_page(d, name).pages)

\* let page_index = PdfPageIndex(doc.pages.len() - 1), after the push
add_page_index(d, name) == Len(add_page(d, name).pages) - 1

AddPage ==
    /\ handle = "live"
    /\ Len(doc.pages) < MaxPages
    /\ TotalLayers(doc) < MaxLayers
    /\ \E name \in LayerNames :
          /\ doc' = add_page(doc, name)
          /\ ret' = Returned("add_page", TRUE, add_page_index(doc, name), "")
    /\ UNCHANGED <<handle, files, tree, stack, status, stops, built, cell, rng>>

\* get_page(p).add_layer(name): one more layer at the end of the page's layers
add_layer(d, p, name) ==
    [d EXCEPT !.pages[p].layers = Append(@, PdfLayerNew(name))]

AddLayer ==
    /\ handle = "live"
    /\ TotalLayers(doc) < MaxLayers
    /\ \E p \in DOMAIN doc.pages, name \in LayerNames :
          /\ doc' = add_layer(doc, p, name)
          /\ ret' = Returned("add_layer", TRUE, Len(doc.pages[p].layers), "")
    /\ UNCHANGED <<handle, files, tree, stack, status, stops, built, cell, rng>>

\* the k-th operator a caller adds to layer l of page p: it names its place
UserOp(p, l, k) == Operation("Tj", <<Integer(p), Integer(l), Integer(k)>>)

\* get_page(p).get_layer(l).add_op(op): the operator names where it was added
AddOp ==
    /\ handle = "live"
    /\ TotalOps(doc) < MaxOps
    /\ \E p \in DOMAIN doc.pages :
         \E l \in DOMAIN doc.pages[p].layers :
            doc' = add_op(doc, p, l, UserOp(p, l, Len(LayerOps(doc, p, l)) + 1))
    /\ ret' = Returned("add_op", TRUE, 0, "")
    /\ UNCHANGED <<handle, files, tree, stack, status, stops, built, cell, rng>>

\* fonts.get_font(name)
HasFont(d, name) == \E i \in DOMAIN d.fonts : d.fonts[i].name = name

\* a variant of the macro that skips the lookup
implement_adding_fonts_without_lookup(d, name) ==
    [d EXCEPT !.inner_doc = AfterNewObjectId(@),
              !.fonts = Append(@, [name |-> name, inner_obj |-> NewObjectId(d.inner_doc)])]

\* implement_adding_fonts!: a name already registered changes nothing; a new
\* name gets a fresh object id and an entry
implement_adding_fonts(d, name) ==
    IF HasFont(d, name) THEN d
    ELSE [d EXCEPT !.inner_doc = AfterNewObjectId(@),
                   !.fonts = Append(@, [name |-> name, inner_obj |-> NewObjectId(d.inner_doc)])]

AddBuiltinFont ==
    /\ handle = "live"
    /\ \E f \in BuiltinFonts :
          /\ doc' = implement_adding_fonts(doc, f)
          /\ ret' = Returned("add_builtin_font", TRUE, 0, f)
    /\ UNCHANGED <<handle, files, tree, stack, status, stops, built, cell, rng>>


\* the most fonts a document gets
MaxFonts == 2

\* ExternalFont::new(font_stream, last_font_index): an error when the stream
\* cannot be read or parsed, else the font, its face name made from the index
FaceNames == <<"F0", "F1", "F2", "F3">>
ExternalFontNew(readable, font_index) ==
    [ok |-> readable, face_name |-> IF readable THEN FaceNames[font_index + 1] ELSE ""]

\* a variant that registers the font before looking at what the parser said
add_external_font_registering_first(d, readable) ==
    LET last_font_index == Len(d.fonts)
        external_font   == ExternalFontNew(readable, last_font_index)
    IN  [ok |-> external_font.ok,
         name |-> external_font.face_name,
         doc |-> implement_adding_fonts(d, FaceNames[last_font_index + 1])]

\* add_external_font: the ? returns the error of ExternalFont::new before
\* anything is registered
add_external_font(d, readable) ==
    LET last_font_index == Len(d.fonts)
        external_font   == ExternalFontNew(readable, last_font_index)
    IN  IF ~external_font.ok
        THEN [ok |-> FALSE, name |-> "", doc |-> d]
        ELSE [ok |-> TRUE, name |-> external_font.face_name,
              doc |-> implement_adding_fonts(d, external_font.face_name)]

AddExternalFont ==
    /\ handle = "live"
    /\ Len(doc.fonts) < MaxFonts
    /\ \E readable \in BOOLEAN :
          /\ doc' = add_external_font(doc, readable).doc
          /\ ret' = Returned("add_external_font", add_external_font(doc, readable).ok, 0,
                             add_external_font(doc, readable).name)
    /\ UNCHANGED <<handle, files, tree, stack, status, stops, built, cell, rng>>

\* the most objects the caller adds to the store directly
MaxObjects == 1

\* an object the caller hands to add_object
UserObject == [Type |-> "User"]

UserObjects(d) == {id \in DOMAIN d.inner_doc.objects : d.inner_doc.objects[id] = UserObject}

\* add_object(object): straight into the store, the new id returned
add_object(d, object) == [d EXCEPT !.inner_doc = AddObject(@, object)]

AddUserObject ==
    /\ handle = "live"
    /\ Cardinality(UserObjects(doc)) < MaxObjects
    /\ doc' = add_object(doc, UserObject)
    /\ ret' = Returned("add_object", TRUE, NewObjectId(doc.inner_doc), "")
    /\ UNCHANGED <<handle, files, tree, stack, status, stops, built, cell, rng>>

\* ------------------------------------------------------ builder functions
\* with_title(self, new_title) -> (): sets the title of the metadata
with_title(d, new_title) == [d EXCEPT !.metadata.document_title = new_title]

\* with_document_id(self, id) -> Self
with_document_id(d, id) == [d EXCEPT !.document_id = id]

\* with_instance_id(self, id) -> Self
with_instance_id(d, id) == [d EXCEPT !.instance_id = Some(id)]

\* with_title takes the handle by value and returns the unit value: the
\* caller has no handle afterwards
WithTitle ==
    /\ handle = "live"
    /\ \E new_title \in Titles :
          /\ doc' = with_title(doc, new_title)
          /\ ret' = Returned("with_title", TRUE, 0, new_title)
    /\ handle' = "consumed"
    /\ cell' = HandleDropped(cell)
    /\ UNCHANGED <<files, tree, stack, status, stops, built, rng>>

\* with_document_id takes the handle by value and gives it back
WithDocumentId ==
    /\ handle = "live"
    /\ \E text \in GivenTexts :
          /\ doc' = with_document_id(doc, GivenId(text))
          /\ ret' = Returned("with_document_id", TRUE, 0, text)
    /\ UNCHANGED <<handle, files, tree, stack, status, stops, built, cell, rng>>

\* with_instance_id takes the handle by value and gives it back
WithInstanceId ==
    /\ handle = "live"
    /\ \E text \in GivenTexts :
          /\ doc' = with_instance_id(doc, GivenId(text))
          /\ ret' = Returned("with_instance_id", TRUE, 0, text)
    /\ UNCHANGED <<handle, files, tree, stack, status, stops, built, cell, rng>>

\* ------------------------------------------------- the shared document cell
\* a call on the document: its name and its argument
Op(name, arg) == [name |-> name, arg |-> arg]
NoOp == Op("none", "")

\* Rc::new(RefCell::new(doc)): one strong reference, no weak one, no borrow
NewCell == [strong |-> 1, weak |-> 0, active |-> <<>>, todo |-> <<>>, op |-> NoOp,
            calls |-> 0, conflict |-> FALSE]

\* one statement or block that borrows the cell and drops the borrow at its end
Borrowing(kind) == <<kind, "drop">>

\* a variant of the macro whose lookup borrow lives to the end of the macro
borrows_implement_adding_fonts_unscoped(d, name) ==
    IF HasFont(d, name) THEN <<"borrow", "drop">>
    ELSE <<"borrow", "borrow_mut", "drop", "drop">>

\* implement_adding_fonts!: the lookup borrows inside a block of its own; a
\* name that was not found is added under a mutable borrow
borrows_implement_adding_fonts(d, name) ==
    Borrowing("borrow") \o (IF HasFont(d, name) THEN <<>> ELSE Borrowing("borrow_mut"))

\* add_external_font: doc.fonts.len() under a borrow of its own block, then
\* ExternalFont::new, then the macro unless the ? returned
borrows_add_external_font(d, readable) ==
    Borrowing("borrow")
    \o (IF readable
        THEN borrows_implement_adding_fonts(d, ExternalFontNew(TRUE, Len(d.fonts)).face_name)
        ELSE <<>>)

\* linear_gradient: the add_object calls are arguments of one another, the
\* innermost evaluated first: one per window of two stops, then the Bounds
\* slice, then the function, the shading and the pattern
borrows_linear_gradient(s) ==
    Flatten([i \in DOMAIN Windows2(s) |-> Borrowing("borrow_mut")])
    \o (IF BoundsSlicePanics(s) THEN <<"abort">>
        ELSE Borrowing("borrow_mut") \o Borrowing("borrow_mut") \o Borrowing("borrow_mut"))

\* the borrows of a call, in the order the call takes and drops them
BorrowsOf(op, d, s) ==
    CASE op.name = "add_page" -> Borrowing("borrow_mut")
      [] op.name = "add_builtin_font" -> borrows_implement_adding_fonts(d, op.arg)
      [] op.name = "add_external_font" -> borrows_add_external_font(d, op.arg = "readable")
      [] op.name = "get_page" -> Borrowing("borrow_mut")
      [] op.name = "get_font" -> Borrowing("borrow")
      [] op.name = "add_object" -> Borrowing("borrow_mut")
      [] op.name = "add_linear_gradient" -> Borrowing("borrow_mut")
      [] op.name = "linear_gradient" -> borrows_linear_gradient(s)
      [] OTHER -> Borrowing("borrow_mut")

\* the with_* builder functions
Builders == {"with_title", "with_trapping", "with_document_id", "with_instance_id"}

\* the most page handles taken from a document
MaxHandles == 2

\* the most calls followed borrow by borrow
MaxCalls == 2

\* the pattern dictionary add_linear_gradient adds
EmptyGradient == [Type |-> "Pattern", PatternType |-> 2]

\* the calls a caller can make on document d
Operations(d, c, b) ==
    {Op("add_page", name) : name \in {n \in LayerNames :
        Len(d.pages) < MaxPages /\ TotalLayers(d) < MaxLayers}}
    \cup {Op("add_builtin_font", f) : f \in BuiltinFonts}
    \cup {Op("add_external_font", r) : r \in {x \in {"readable", "unreadable"} :
             Len(d.fonts) < MaxFonts}}
    \cup {Op("get_page", "") : x \in {y \in {1} : c.weak < MaxHandles /\ d.pages # <<>>}}
    \cup {Op("get_font", f) : f \in BuiltinFonts}
    \cup {Op("add_object", "") : x \in {y \in {1} : Cardinality(UserObjects(d)) < MaxObjects}}
    \cup {Op("add_linear_gradient", "") : x \in {y \in {1} :
             \A id \in DOMAIN d.inner_doc.objects : d.inner_doc.objects[id] # EmptyGradient}}
    \cup {Op("linear_gradient", "") : x \in {y \in {1} : b.kind = "none"}}
    \cup {Op(w, "id") : w \in Builders}

\* the document once the call has come back
DocAfter(op, d, s) ==
    CASE op.name = "add_page" -> add_page(d, op.arg)
      [] op.name = "add_builtin_font" -> implement_adding_fonts(d, op.arg)
      [] op.name = "add_external_font" -> add_external_font(d, op.arg = "readable").doc
      [] op.name = "add_object" -> add_object(d, UserObject)
      [] op.name = "add_linear_gradient" -> add_object(d, EmptyGradient)
      [] op.name = "linear_gradient" -> [d EXCEPT !.inner_doc = linear_gradient(@, s).store]
      [] op.name = "with_title" -> with_title(d, op.arg)
      [] op.name = "with_document_id" -> with_document_id(d, GivenId(op.arg))
      [] op.name = "with_instance_id" -> with_instance_id(d, GivenId(op.arg))
      [] OTHER -> d

\* RefCell::borrow / borrow_mut / the drop of a Ref: a shared borrow needs no
\* mutable one active, a mutable borrow needs none active
BorrowConflicts(active, event) ==
    \/ event = "borrow" /\ \E i \in DOMAIN active : active[i] = "borrow_mut"
    \/ event = "borrow_mut" /\ active # <<>>

ActiveAfter(active, event) ==
    IF event = "drop" THEN SubSeq(active, 1, Len(active) - 1)
    ELSE IF event = "abort" THEN active
    ELSE Append(active, event)

\* a call on the document starts
Call ==
    /\ handle = "live"
    /\ status # "panicked"
    /\ ~cell.conflict
    /\ cell.todo = <<>>
    /\ cell.calls < MaxCalls
    /\ \E op \in Operations(doc, cell, built) :
          cell' = [cell EXCEPT !.op = op, !.todo = BorrowsOf(op, doc, stops), !.calls = @ + 1]
    /\ UNCHANGED <<doc, handle, files, tree, stack, status, stops, built, ret, rng>>

\* the call in progress takes or drops its next borrow, or aborts; with its
\* last step it comes back
BorrowStep ==
    /\ cell.todo # <<>>
    /\ LET event == Head(cell.todo)
           last  == Tail(cell.todo) = <<>>
       IN  IF BorrowConflicts(cell.active, event)
           THEN /\ cell' = [cell EXCEPT !.conflict = TRUE, !.todo = <<>>]
                /\ status' = "panicked"
                /\ UNCHANGED <<doc, handle, built, ret>>
           ELSE /\ cell' = [cell EXCEPT !.active = ActiveAfter(@, event),
                                        !.todo = Tail(@),
                                        !.weak = IF last /\ cell.op.name = "get_page"
                                                 THEN @ + 1 ELSE @,
                                        !.strong = IF last /\ cell.op.name = "with_title"
                                                   THEN @ - 1 ELSE @]
                /\ status' = IF event = "abort" THEN "panicked" ELSE status
                /\ doc' = IF last THEN DocAfter(cell.op, doc, stops) ELSE doc
                /\ built' = IF last /\ cell.op.name = "linear_gradient"
                            THEN [kind |-> "gradient",
                                  result |-> linear_gradient(doc.inner_doc, stops),
                                  before |-> doc.inner_doc.max_id]
                            ELSE built
                /\ handle' = IF last /\ cell.op.name = "with_title" THEN "consumed" ELSE handle
                /\ ret' = IF last
                          THEN Returned(cell.op.name,
                                        event # "abort" /\ cell.op.arg # "unreadable", 0, cell.op.arg)
                          ELSE ret
    /\ UNCHANGED <<files, tree, stack, stops, rng>>

\* ----------------------------------------------------------- page handles
\* a variant of get_page whose handle shares ownership: Rc::clone
get_page_owning(c) == [c EXCEPT !.strong = @ + 1]

\* get_page: PdfPageReference { document: Rc::downgrade(&self.document), page }
get_page(c) == [c EXCEPT !.weak = @ + 1]

GetPage ==
    /\ handle = "live"
    /\ cell.weak < MaxHandles
    /\ \E p \in DOMAIN doc.pages :
          ret' = Returned("get_page", TRUE, p - 1, "")
    /\ cell' = get_page(cell)
    /\ UNCHANGED <<doc, handle, files, tree, stack, status, stops, built, rng>>

\* Weak::upgrade: a document while a strong reference is left
Upgrades(c) == c.strong > 0

\* a page handle is used (add_layer): it upgrades its weak reference and adds
\* the layer, or finds no document
PageAddLayer ==
    /\ cell.weak > 0
    /\ IF Upgrades(cell)
       THEN /\ TotalLayers(doc) < MaxLayers
            /\ \E p \in DOMAIN doc.pages, name \in LayerNames :
                  /\ doc' = add_layer(doc, p, name)
                  /\ ret' = Returned("add_layer", TRUE, Len(doc.pages[p].layers), "")
       ELSE /\ doc' = doc
            /\ ret' = Returned("add_layer", FALSE, 0, "no document")
    /\ UNCHANGED <<handle, files, tree, stack, status, stops, built, cell, rng>>

\* ------------------------------------------------------- the random source
\* a usize: its bits, the lowest first
WordBits == {32, 64}

\* the word of width w that holds the small number n (n < 2^12)
FromNat(n, w) == [i \in 1..w |-> IF i <= 12 THEN (n \div (2 ^ (i - 1))) % 2 ELSE 0]

IsZero(x) == \A i \in DOMAIN x : x[i] = 0

\* !x
NotWord(x) == [i \in DOMAIN x |-> 1 - x[i]]

\* x << k and x >> k: the bits shifted out are lost
Shl(x, k) == [i \in DOMAIN x |-> IF i > k THEN x[i - k] ELSE 0]
Shr(x, k) == [i \in DOMAIN x |-> IF i + k <= Len(x) THEN x[i + k] ELSE 0]

\* x ^ y
Xor(x, y) == [i \in DOMAIN x |-> (x[i] + y[i]) % 2]

\* the wrapping sum of x and y, bit by bit with the carry; the values of a
\* step are bound before the next step is taken
RECURSIVE AddFrom(_, _, _, _, _)
AddFrom(x, y, i, carry, acc) ==
    IF i > Len(x) THEN acc
    ELSE CHOOSE word \in {AddFrom(x, y, next, sum \div 2, longer) :
                              sum \in {x[i] + y[i] + carry},
                              next \in {i + 1},
                              longer \in {Append(acc, (x[i] + y[i] + carry) % 2)}} : TRUE

WrappingAdd(x, y) == AddFrom(x, y, 1, 0, <<>>)

\* the quotient of x by 10, its bits the highest first, and the remainder
RECURSIVE DivFrom(_, _, _, _)
DivFrom(x, i, rem, acc) ==
    IF i = 0 THEN [quot |-> Reverse(acc), rem |-> rem]
    ELSE CHOOSE division \in {DivFrom(x, next, part % 10, longer) :
                                  part \in {2 * rem + x[i]},
                                  next \in {i - 1},
                                  longer \in {Append(acc, (2 * rem + x[i]) \div 10)}} : TRUE

\* format!("{}", x): the decimal digits of x, the highest first
RECURSIVE DigitsBefore(_, _)
DigitsBefore(x, lower) ==
    IF IsZero(x) THEN lower
    ELSE CHOOSE digits \in {DigitsBefore(d.quot, <<d.rem>> \o lower) :
                                d \in {DivFrom(x, Len(x), 0, <<>>)}} : TRUE

Format(x) == IF IsZero(x) THEN <<0>> ELSE DigitsBefore(x, <<>>)

\* the xorshift of rand() for the pointer width
Xorshift(x) ==
    IF Len(x) = 64
    THEN LET a == Xor(x, Shl(x, 21))
             b == Xor(a, Shr(a, 35))
         IN  Xor(b, Shl(b, 4))
    ELSE LET a == Xor(x, Shl(x, 13))
             b == Xor(a, Shr(a, 17))
         IN  Xor(b, Shl(b, 5))

\* a variant of rand() that advances the seed by 32
rand_adding_32(seed) ==
    [value |-> Xorshift(seed), seed |-> WrappingAdd(seed, FromNat(32, Len(seed)))]

\* rand(): fetch_add(21) gives the seed as it was and advances it, wrapping;
\* the value is the xorshift of the seed read
rand(seed) ==
    [value |-> Xorshift(seed), seed |-> WrappingAdd(seed, FromNat(21, Len(seed)))]

\* u8_to_char: 'A' as u8 + input, as a character code
u8_to_char(input) == 65 + input

\* for ch in rand.chars(): the characters pushed while char_pos < MAX_CHARS
RECURSIVE PushDigits(_, _)
PushDigits(final_string, digits) ==
    IF digits = <<>> \/ Len(final_string) >= MAX_CHARS THEN final_string
    ELSE CHOOSE pushed \in {PushDigits(longer, rest) :
                                longer \in {Append(final_string, u8_to_char(Head(digits)))},
                                rest \in {Tail(digits)}} : TRUE

\* the most strings generated
MaxStrings == 2

\* RAND_SEED with no string generated yet
NewRng(seed) ==
    [seed |-> seed, read |-> {}, reread |-> FALSE, pc |-> "idle", final_string |-> <<>>,
     out |-> <<>>, strings |-> 0]

\* the seeds a string generation starts from: the initial one, zero, the
\* last value before the wrap, and the one a single call wraps to zero
Seeds(w) ==
    {FromNat(2100, w), FromNat(0, w), NotWord(FromNat(0, w)), NotWord(FromNat(20, w)),
     NotWord(FromNat(2100, w))}

\* random_character_string_32 is called
CallRandomString ==
    /\ rng.pc = "idle"
    /\ rng.strings < MaxStrings
    /\ rng' = [rng EXCEPT !.pc = "loop", !.final_string = <<>>]
    /\ UNCHANGED <<doc, handle, files, tree, stack, status, stops, built, ret, cell>>

\* one turn of 'outer: a call of rand() and the characters of its digits
OuterIteration ==
    /\ rng.pc = "loop"
    /\ Len(rng.final_string) < MAX_CHARS
    /\ \E r \in {rand(rng.seed)} :
       \E pushed \in {PushDigits(rng.final_string, digits) : digits \in {Format(r.value)}} :
          rng' = [rng EXCEPT !.seed = r.seed,
                             !.read = @ \cup {rng.seed},
                             !.reread = @ \/ rng.seed \in rng.read,
                             !.final_string = pushed]
    /\ UNCHANGED <<doc, handle, files, tree, stack, status, stops, built, ret, cell>>

\* the loop is left and final_string returned
ReturnString ==
    /\ rng.pc = "loop"
    /\ Len(rng.final_string) >= MAX_CHARS
    /\ rng' = [rng EXCEPT !.pc = "idle", !.out = rng.final_string, !.strings = @ + 1]
    /\ UNCHANGED <<doc, handle, files, tree, stack, status, stops, built, ret, cell>>

\* ------------------------------------------------- documents to export
\* the layer counts of the pages of a document
Layouts == UNION {[1..P -> 1..MaxPerPage] : P \in 1..MaxPages}

LayerNameAt(j) == IF j = 1 THEN "Layer 1" ELSE "Layer 2"

\* add_layer on page p until it has k layers
RECURSIVE WithLayers(_, _, _)
WithLayers(d, p, k) ==
    IF Len(d.pages[p].layers) >= k THEN d
    ELSE WithLayers(add_layer(d, p, LayerNameAt(Len(d.pages[p].layers) + 1)), p, k)

\* add_page, and add_layer on the new page, until the layout is reached
RECURSIVE WithPages(_, _)
WithPages(d, layout) ==
    IF Len(d.pages) >= Len(layout) THEN d
    ELSE LET d1 == add_page(d, LayerNameAt(1))
         IN  WithPages(WithLayers(d1, Len(d1.pages), layout[Len(d1.pages)]), layout)

\* PdfDocument::new and the add_page and add_layer calls that give the layout
Laid(layout, digits) ==
    WithPages(WithLayers(PdfDocumentNew("PDF_Document_title", LayerNameAt(1), digits), 1, layout[1]),
              layout)

\* add_op on layer l of page p until it holds n operators
RECURSIVE WithOps(_, _, _, _)
WithOps(d, p, l, n) ==
    IF Len(LayerOps(d, p, l)) >= n THEN d
    ELSE WithOps(add_op(d, p, l, UserOp(p, l, Len(LayerOps(d, p, l)) + 1)), p, l, n)

\* the (page, layer) places of a document, page by page
Slots(d) == Flatten([p \in DOMAIN d.pages |-> [l \in DOMAIN d.pages[p].layers |-> <<p, l>>]])

NoSlot == <<0, 0>>

\* every layer gets n operators, but for one layer at most: it is left empty
\* or, when pattern is set, gets a pattern next to its operators
RECURSIVE Filled(_, _, _, _, _)
Filled(d, slots, n, special, pattern) ==
    IF slots = <<>> THEN d
    ELSE LET sl == Head(slots)
             d1 == IF sl # special THEN WithOps(d, sl[1], sl[2], n)
                   ELSE IF pattern
                   THEN add_pattern(WithOps(d, sl[1], sl[2], n), sl[1], sl[2],
                                    linear_gradient_shading(StopsOfLength(2)))
                   ELSE d
         IN  Filled(d1, Tail(slots), n, special, pattern)

\* the documents given to the export, with and without a registered font
ExportDocs ==
    UNION {{LET d == Filled(Laid(layout, digits), Slots(Laid(layout, digits)), n, special, pattern)
            IN  IF font THEN implement_adding_fonts(d, "Helvetica") ELSE d :
                n \in 0..MaxBuf,
                special \in {NoSlot} \cup {Slots(Laid(layout, digits))[i] :
                                               i \in DOMAIN Slots(Laid(layout, digits))},
                pattern \in BOOLEAN,
                font \in BOOLEAN} :
           layout \in Layouts, digits \in DigitStreams}

\* --------------------------------------------------------- specifications
\* the stop lists: offsets in order, any colours
StopLists ==
    {s \in SeqsUpTo([offset : 0..MaxOffset, color : Colors], MaxStops) :
        \A i \in 1..(Len(s) - 1) : s[i].offset <= s[i + 1].offset}

ViewBox(x, y) == [x |-> x, y |-> y]

\* the scenes of one path below the root, over every path data
PathFills == {NoFill, ColorFill(Blue)} \cup {LinkFill(id) : id \in LinkIds}
PathStrokes == {NoStroke, ColorStroke(Red, "Butt")}

PathTrees ==
    {[view_box |-> ViewBox(0, 0), defs |-> Defs,
      nodes |-> <<SvgNode, PathNode(1, Path(Identity, fill, stroke, kinds))>>] :
        fill \in PathFills, stroke \in PathStrokes, kinds \in SeqsUpTo(SegKinds, MaxSegs)}

\* the nested scenes: up to MaxNodes nodes below the root, each a Group, a
\* node of another kind, or one of a few paths, under any earlier node that
\* is not a Path
PoolPaths ==
    {Path(Scale2, fill, stroke, <<"MoveTo", "LineTo", "ClosePath">>) :
        fill \in {NoFill, ColorFill(Blue), LinkFill(<<"lg", 1>>), LinkFill(<<"lg", 2>>), LinkFill(Missing)},
        stroke \in {NoStroke, LinkStroke("Square")}}

Payloads ==
    {GroupNode(0, t) : t \in {Identity, Scale2}} \cup {OtherNode(0)}
    \cup {PathNode(0, path) : path \in PoolPaths}

NodeLists(n) ==
    {<<SvgNode>> \o [j \in 1..n |-> [f[j][2] EXCEPT !.parent = f[j][1]]] :
        f \in {g \in [1..n -> (1..n) \X Payloads] :
                 \A j \in 1..n : /\ g[j][1] <= j
                                 /\ g[j][1] > 1 => g[g[j][1] - 1][2].kind # "Path"}}

NestedTrees ==
    {[view_box |-> vb, defs |-> Defs, nodes |-> nodes] :
        vb \in {ViewBox(0, 0), ViewBox(3, 4)},
        nodes \in UNION {NodeLists(n) : n \in 0..MaxNodes}}

NoTree == [view_box |-> ViewBox(0, 0), defs |-> Defs, nodes |-> <<SvgNode>>]

InitCommon ==
    /\ handle = "live"
    /\ files = <<>>
    /\ stack = <<>>
    /\ status = "idle"
    /\ built = NotBuilt
    /\ ret = NoCall
    /\ cell = NewCell
    /\ rng = NewRng(FromNat(2100, 64))

InitShading ==
    /\ InitCommon
    /\ doc \in {PdfDocumentNew("PDF_Document_title", "Layer 1", digits) : digits \in DigitStreams}
    /\ tree = NoTree
    /\ stops \in StopLists

NextShading == BuildShading \/ BuildGradient

SpecShading == InitShading /\ [][NextShading]_vars

InitSvg ==
    /\ InitCommon
    /\ doc \in {PdfDocumentNew("PDF_Document_title", "Layer 1", digits) : digits \in DigitStreams}
    /\ tree \in PathTrees \cup NestedTrees
    /\ stops = <<>>

NextSvg ==
    \/ DrawSvg
    \/ DrawNodeSvg
    \/ DrawNodeGroup
    \/ DrawNodePath
    \/ DrawNodeOther
    \/ GroupReturn
    \/ SaveDrawn

SpecSvg == InitSvg /\ [][NextSvg]_vars

InitExport ==
    /\ InitCommon
    /\ doc \in ExportDocs
    /\ tree = NoTree
    /\ stops = <<>>

NextExport == Save

SpecExport == InitExport /\ [][NextExport]_vars

\* a document right after creation, configured through the builder functions
\* and exported
InitBuilder ==
    /\ InitCommon
    /\ doc \in {PdfDocumentNew(title, name, digits) :
                    title \in Titles, name \in LayerNames, digits \in DigitStreams}
               \cup {PdfDocumentEmpty(title, digits) : title \in Titles, digits \in DigitStreams}
    /\ tree = NoTree
    /\ stops = <<>>

NextBuilder ==
    \/ WithTitle
    \/ WithDocumentId
    \/ WithInstanceId
    \/ Save

SpecBuilder == InitBuilder /\ [][NextBuilder]_vars

\* the calls on a document, borrow by borrow
InitBorrow ==
    /\ InitCommon
    /\ doc \in {PdfDocumentNew("PDF_Document_title", "Layer 1", digits) : digits \in DigitStreams}
               \cup {PdfDocumentEmpty("PDF_Document_title", digits) : digits \in DigitStreams}
    /\ tree = NoTree
    /\ stops \in {StopsOfLength(k) : k \in 0..MaxStops}

NextBorrow ==
    \/ Call
    \/ BorrowStep

SpecBorrow == InitBorrow /\ [][NextBorrow]_vars

\* a document, the page handles taken from it, and its export
InitHandles ==
    /\ InitCommon
    /\ doc \in {PdfDocumentNew("PDF_Document_title", name, digits) :
                    name \in LayerNames, digits \in DigitStreams}
               \cup {PdfDocumentEmpty("PDF_Document_title", digits) : digits \in DigitStreams}
    /\ tree = NoTree
    /\ stops = <<>>

NextHandles ==
    \/ AddPage
    \/ GetPage
    \/ PageAddLayer
    \/ Save

SpecHandles == InitHandles /\ [][NextHandles]_vars

\* the identifiers generated one after another, from any seed, on both
\* pointer widths
InitRand ==
    /\ handle = "live"
    /\ files = <<>>
    /\ stack = <<>>
    /\ status = "idle"
    /\ built = NotBuilt
    /\ ret = NoCall
    /\ cell = NewCell
    /\ doc \in {PdfDocumentEmpty("PDF_Document_title", digits) : digits \in DigitStreams}
    /\ tree = NoTree
    /\ stops = <<>>
    /\ rng \in UNION {{NewRng(seed) : seed \in Seeds(w)} : w \in WordBits}

NextRand ==
    \/ CallRandomString
    \/ OuterIteration
    \/ ReturnString

\* the code runs on: a call that can take its next step takes it
SpecRand == InitRand /\ [][NextRand]_vars /\ WF_vars(NextRand)

Init ==
    /\ InitCommon
    /\ doc \in {PdfDocumentNew("PDF_Document_title", name, digits) :
                    name \in LayerNames, digits \in DigitStreams}
               \cup {PdfDocumentEmpty("PDF_Document_title", digits) : digits \in DigitStreams}
    /\ tree = NoTree
    /\ stops = <<>>

Next ==
    \/ AddPage
    \/ AddLayer
    \/ AddOp
    \/ AddBuiltinFont
    \/ Save

Spec == Init /\ [][Next]_vars

\* a document assembled from pages, fonts and objects of the caller, nothing
\* drawn on it
NextFonts ==
    \/ AddPage
    \/ AddBuiltinFont
    \/ AddExternalFont
    \/ AddUserObject
    \/ Save

SpecFonts == Init /\ [][NextFonts]_vars

\* ----------------------------------------------------------------- claims
\* the buffer of the layer draw_svg writes to
Buffer == LayerOps(doc, DrawPage, DrawLayer)

\* how many of the first k operators of ops have the operator name
CountOp(ops, k, name) == Cardinality({i \in 1..k : ops[i].op = name})

\* C1: when draw_svg has returned, the layer holds as many saves (q) as
\* restores (Q), and in every prefix of the emitted operators the restores
\* do not outnumber the saves.
C1_SaveRestoreBalanced ==
    /\ \A k \in 0..Len(Buffer) : CountOp(Buffer, k, "Q") <= CountOp(Buffer, k, "q")
    /\ status = "returned" =>
          CountOp(Buffer, Len(Buffer), "Q") = CountOp(Buffer, Len(Buffer), "q")

\* a returned call on a tree with a childless Group and a node of another kind
C1_Witness ==
    /\ status = "returned"
    /\ \E n \in DOMAIN tree.nodes :
          tree.nodes[n].kind = "Group" /\ Children(tree.nodes, n) = <<>>
    /\ \E n \in DOMAIN tree.nodes : tree.nodes[n].kind = "Other"
    /\ CountOp(Buffer, Len(Buffer), "q") = 2

\* the operators one step appended to the buffer
Emitted == SubSeq(Buffer', Len(Buffer) + 1, Len(Buffer'))

PaintOps == {"b", "B", "f", "F", "s", "S", "n"}

\* the table of the claim, row by row
C2_Table(stroke, fill, closed) ==
    IF stroke /\ fill /\ closed THEN "b"
    ELSE IF stroke /\ fill /\ ~closed THEN "f"
    ELSE IF stroke /\ ~fill /\ closed THEN "s"
    ELSE IF stroke /\ ~fill /\ ~closed THEN "S"
    ELSE IF ~stroke /\ fill THEN "f"
    ELSE "n"

\* C2: a draw_path call on a path whose fill is solid or absent emits exactly
\* one paint operator, the one the table gives for (stroke present, fill
\* present, closed), closed meaning some segment of the data is a ClosePath.
C2_PaintOperatorTable ==
    [][(TopIs("Path") /\ tree.nodes[Head(stack).n].fill.kind \in {"None", "Color"}) =>
        LET path == tree.nodes[Head(stack).n]
            paints == {i \in DOMAIN Emitted : Emitted[i].op \in PaintOps}
        IN  /\ Cardinality(paints) = 1
            /\ \A i \in paints :
                  Emitted[i].op =
                      C2_Table(path.stroke.kind \in {"Color", "Link"},
                               path.fill.kind = "Color",
                               \E k \in 1..Len(path.data) : path.data[k].kind = "ClosePath")
       ]_vars

\* a stroked and filled path whose ClosePath is not its last segment was painted b
C2_Witness ==
    /\ status = "returned"
    /\ Len(tree.nodes) = 2
    /\ tree.nodes[2].kind = "Path"
    /\ tree.nodes[2].fill.kind = "Color"
    /\ tree.nodes[2].stroke.kind = "Color"
    /\ Len(tree.nodes[2].data) = 3
    /\ tree.nodes[2].data[2].kind = "ClosePath"
    /\ tree.nodes[2].data[3].kind = "LineTo"
    /\ CountOp(Buffer, Len(Buffer), "b") = 1

\* the stitching function of a built result: the dictionary itself, or the
\* object the Shading's Function entry refers to
StitchingOf(b) ==
    IF b.kind = "shading" THEN b.result.Function
    ELSE LET objs    == b.result.store.objects
             shading == objs[objs[b.result.id].Shading.id]
         IN  objs[shading.Function.id]

\* sub-function i of a built result
SubFunctionOf(b, i) ==
    IF b.kind = "shading" THEN StitchingOf(b).Functions[i]
    ELSE b.result.store.objects[StitchingOf(b).Functions[i].id]

ChannelsOf(c) == <<c.red, c.green, c.blue>>
Numerators(operands) == [i \in DOMAIN operands |-> operands[i].num]

\* C3: for N >= 2 stops both builders return a stitching function of domain
\* [0,1] with N-1 sub-functions, sub-function i from the colour of stop i to
\* the colour of stop i+1, Bounds the N-2 interior offsets in order, and
\* Encode 2(N-1) entries alternating 0, 1 from 0.
C3_ShadingFunctionShape ==
    (built.kind \in {"shading", "gradient"} /\ Len(stops) >= 2) =>
        /\ ~built.result.panicked
        /\ LET f == StitchingOf(built)
               n == Len(stops)
           IN  /\ f.Domain = <<Integer(0), Integer(1)>>
               /\ Len(f.Functions) = n - 1
               /\ \A i \in 1..(n - 1) :
                     /\ Numerators(SubFunctionOf(built, i).C0) = ChannelsOf(stops[i].color)
                     /\ Numerators(SubFunctionOf(built, i).C1) = ChannelsOf(stops[i + 1].color)
               /\ Len(f.Bounds) = n - 2
               /\ \A i \in 1..(n - 2) : f.Bounds[i].num = stops[i + 1].offset
               /\ Len(f.Encode) = 2 * (n - 1)
               /\ \A i \in 1..(2 * (n - 1)) :
                     f.Encode[i] = Integer(IF i % 2 = 1 THEN 0 ELSE 1)

\* a gradient of three stops with three different offsets and colours was built
C3_Witness ==
    /\ built.kind = "gradient"
    /\ Len(stops) = 3
    /\ stops[1].offset < stops[2].offset
    /\ stops[2].offset < stops[3].offset
    /\ stops[1].color # stops[2].color
    /\ ~built.result.panicked
    /\ Len(StitchingOf(built).Bounds) = 1

\* C4: for N < 2 stops linear_gradient_shading completes, with no
\* sub-function and empty Bounds and Encode.
C4_DegenerateShading ==
    (built.kind = "shading" /\ Len(stops) < 2) =>
        /\ ~built.result.panicked
        /\ built.result.Function.Functions = <<>>
        /\ built.result.Function.Bounds = <<>>
        /\ built.result.Function.Encode = <<>>

\* C5: draw_svg returns normally for every scene tree.
C5_DrawSvgNeverFails == status # "panicked"

\* the store of the f-th export, as save built it
GraphOf(f) == files[f].graph.inner_doc
Exported == {f \in DOMAIN files : files[f].result # "panic"}

ObjectsOfType(objs, type) == {k \in DOMAIN objs : objs[k].Type = type}

\* the layer names of the document, page by page, layer by layer
LayerNamesInOrder ==
    Flatten([i \in DOMAIN doc.pages |->
        [j \in DOMAIN doc.pages[i].layers |-> doc.pages[i].layers[j].name]])

\* the operators of page i, layer by layer
PageContent(i) ==
    Flatten([j \in DOMAIN doc.pages[i].layers |-> doc.pages[i].layers[j].operations])

\* C6: an exported document of P pages has exactly P page objects, the page
\* tree lists them in document order with Count = P, and the OCG registry
\* has one entry per (page, layer), page-major and layer-minor, each with
\* its layer's name, also when names repeat on a page.
C6_PagesAndOcgRegistry ==
    \A f \in Exported :
        LET objs    == GraphOf(f).objects
            catalog == objs[GraphOf(f).trailer.Root.id]
            pages   == objs[catalog.Pages.id]
            ocgs    == catalog.OCProperties.OCGs
            P       == Len(doc.pages)
        IN  /\ Cardinality(ObjectsOfType(objs, "Page")) = P
            /\ pages.Count = P
            /\ Len(pages.Kids) = P
            /\ \A i \in 1..P :
                  /\ pages.Kids[i].id \in ObjectsOfType(objs, "Page")
                  /\ objs[objs[pages.Kids[i].id].Contents.id].content = PageContent(i)
                  /\ \A j \in 1..P : i < j => pages.Kids[i].id < pages.Kids[j].id
            /\ Len(ocgs) = TotalLayers(doc)
            /\ Cardinality(ObjectsOfType(objs, "OCG")) = TotalLayers(doc)
            /\ \A k \in DOMAIN ocgs :
                  /\ ocgs[k].id \in ObjectsOfType(objs, "OCG")
                  /\ objs[ocgs[k].id].Name = LayerNamesInOrder[k]
                  /\ \A m \in DOMAIN ocgs : k # m => ocgs[k].id # ocgs[m].id

\* an export of two pages, the first with two layers of one name and content
C6_Witness ==
    /\ Exported # {}
    /\ Len(doc.pages) = 2
    /\ Len(doc.pages[1].layers) = 2
    /\ doc.pages[1].layers[1].name = doc.pages[1].layers[2].name
    /\ doc.pages[2].layers[1].name # doc.pages[1].layers[1].name
    /\ PageContent(2) # <<>>

\* a reference that resolves to an object of the type
Resolves(objs, ref, type) == ref.id \in DOMAIN objs /\ objs[ref.id].Type = type

\* the number of ids the document and its export use: the page tree, the
\* metadata stream if any, the info dictionary, the ICC profile if any, the
\* two shared OCG objects, one OCG per layer, one per font, the font
\* dictionary if any, per page a stream, a page object and a Resources
\* object if it has one, and the catalog
ExpectedAdded(f) ==
    LET objs    == GraphOf(f).objects
        catalog == objs[GraphOf(f).trailer.Root.id]
    IN  1 + Len(catalog.Metadata) + 1 + Len(catalog.OutputIntents) + 2
          + TotalLayers(doc) + Len(doc.fonts) + (IF doc.fonts # <<>> THEN 1 ELSE 0)
          + Cardinality({k \in ObjectsOfType(objs, "Page") : objs[k].Resources # <<>>})
          + 2 * Len(doc.pages) + 1

\* C7: when save has built the graph every reference it emitted resolves:
\* Catalog->Pages and Page->Parent to the page tree, whose id was allocated
\* before any page object's, Kids, Resources, Contents, the OCG arrays, the
\* trailer's Root and Info to inserted objects; and no two insertions of the
\* export share an id.
C7_ReferencesResolve ==
    \A f \in Exported :
        LET g       == GraphOf(f)
            objs    == g.objects
            pid     == files[f].graph.pages_id
        IN  /\ Resolves(objs, g.trailer.Root, "Catalog")
            /\ Resolves(objs, g.trailer.Info, "Info")
            /\ LET catalog == objs[g.trailer.Root.id]
               IN  /\ catalog.Pages.id = pid
                   /\ Resolves(objs, catalog.Pages, "Pages")
                   /\ \A m \in DOMAIN catalog.Metadata : Resolves(objs, catalog.Metadata[m], "Metadata")
                   /\ \A m \in DOMAIN catalog.OutputIntents :
                         Resolves(objs, catalog.OutputIntents[m], "IccProfile")
                   /\ \A k \in DOMAIN catalog.OCProperties.OCGs :
                         /\ Resolves(objs, catalog.OCProperties.OCGs[k], "OCG")
                         /\ Resolves(objs, catalog.OCProperties.Order[k], "OCG")
                         /\ Resolves(objs, catalog.OCProperties.ON[k], "OCG")
                         /\ Resolves(objs, objs[catalog.OCProperties.OCGs[k].id].Intent, "Intent")
                         /\ Resolves(objs, objs[catalog.OCProperties.OCGs[k].id].Usage, "OCGUsage")
            /\ \A i \in DOMAIN objs[pid].Kids :
                  /\ Resolves(objs, objs[pid].Kids[i], "Page")
                  /\ pid < objs[pid].Kids[i].id
            /\ \A k \in ObjectsOfType(objs, "Page") :
                  /\ objs[k].Parent.id = pid
                  /\ Resolves(objs, objs[k].Contents, "Stream")
                  /\ \A m \in DOMAIN objs[k].Resources :
                        /\ Resolves(objs, objs[k].Resources[m], "Resources")
                        /\ \A n \in DOMAIN objs[objs[k].Resources[m].id].dict.Font :
                              Resolves(objs, objs[objs[k].Resources[m].id].dict.Font[n], "FontDict")
            /\ \A k \in ObjectsOfType(objs, "FontDict") :
                  \A i \in DOMAIN objs[k].dict : Resolves(objs, objs[k].dict[i][2], "Font")
            /\ Cardinality(DOMAIN objs) = ExpectedAdded(f)
            /\ g.max_id = ExpectedAdded(f)

\* an export of two pages with a font registered, so that a Resources object
\* and a font dictionary are among the objects referred to
C7_Witness ==
    /\ Exported # {}
    /\ Len(doc.pages) = 2
    /\ doc.fonts # <<>>
    /\ \E f \in Exported : ObjectsOfType(GraphOf(f).objects, "Metadata") # {}

\* C8: at most one save takes place on a document: once a save has been
\* made the handle is consumed and no further export is recorded.
C8_SaveIsSingleUse ==
    /\ Len(files) <= 1
    /\ files # <<>> => handle = "consumed"

\* a save has taken place
C8_Witness == Len(files) = 1 /\ handle = "consumed"

\* the scene of the claim: a root at the origin and one open, unfilled,
\* stroked path of a move-to and three line-to, with no transform of its own
IsSquareScene ==
    /\ tree.view_box = ViewBox(0, 0)
    /\ Len(tree.nodes) = 2
    /\ tree.nodes[2].kind = "Path"
    /\ tree.nodes[2].fill.kind = "None"
    /\ tree.nodes[2].stroke.kind = "Color"
    /\ tree.nodes[2].transform = Identity
    /\ [i \in DOMAIN tree.nodes[2].data |-> tree.nodes[2].data[i].kind]
          = <<"MoveTo", "LineTo", "LineTo", "LineTo">>

\* the merged content stream of page i in the f-th export
MergedStream(f, i) ==
    LET objs  == GraphOf(f).objects
        pages == objs[objs[GraphOf(f).trailer.Root.id].Pages.id]
    IN  objs[objs[pages.Kids[i].id].Contents.id].content

IsIdentityCm(o) == Numerators(o.args) = <<1, 0, 0, 1, 0, 0>> /\ \A i \in DOMAIN o.args : o.args[i].den = 1

\* what the claim says of a content stream but for the number of cm operators
SquareStreamShape(c) ==
    /\ \A i \in DOMAIN c : c[i].op = "cm" => IsIdentityCm(c[i])
    /\ CountOp(c, Len(c), "m") = 1
    /\ CountOp(c, Len(c), "l") = 3
    /\ CountOp(c, Len(c), "c") = 0
    /\ CountOp(c, Len(c), "S") = 1
    /\ \A i \in DOMAIN c : c[i].op \notin {"f", "F", "b", "B", "s"}

\* C9 as stated: the exported stream of the square scene has exactly one cm.
C9_OneTransform ==
    \A f \in Exported :
        IsSquareScene =>
            /\ CountOp(MergedStream(f, 1), Len(MergedStream(f, 1)), "cm") = 1
            /\ SquareStreamShape(MergedStream(f, 1))

\* C9, amended: the exported stream of the square scene has exactly two cm
\* operators, the root's and the path's, both the identity, four path
\* construction operators (one m, three l), one S and no fill operator.
C9_TwoTransforms ==
    \A f \in Exported :
        IsSquareScene =>
            /\ CountOp(MergedStream(f, 1), Len(MergedStream(f, 1)), "cm") = 2
            /\ SquareStreamShape(MergedStream(f, 1))

\* the square scene was rendered and exported
C9_Witness == IsSquareScene /\ Exported # {} /\ status = "returned"

\* the segments of a path that are not ClosePath, in order
RECURSIVE NonClose(_)
NonClose(data) ==
    IF data = <<>> THEN <<>>
    ELSE (IF Head(data).kind = "ClosePath" THEN <<>> ELSE <<Head(data)>>) \o NonClose(Tail(data))

\* operator o is the path construction operator of segment s
IsOperatorOf(o, s) ==
    \/ s.kind = "MoveTo" /\ o.op = "m" /\ Numerators(o.args) = <<s.x, s.y>>
    \/ s.kind = "LineTo" /\ o.op = "l" /\ Numerators(o.args) = <<s.x, s.y>>
    \/ s.kind = "CurveTo" /\ o.op = "c"
          /\ Numerators(o.args) = <<s.x1, s.y1, s.x2, s.y2, s.x, s.y>>

\* in e, the operators after the single cm are those of the segments of data
\* in order, and what follows them starts with an operator of next
GeometryAfterCm(e, data, next) ==
    \E c \in DOMAIN e :
        /\ e[c].op = "cm"
        /\ \A i \in DOMAIN e : e[i].op = "cm" => i = c
        /\ Len(e) > c + Len(NonClose(data))
        /\ \A i \in 1..Len(NonClose(data)) : IsOperatorOf(e[c + i], NonClose(data)[i])
        /\ e[c + Len(NonClose(data)) + 1].op \in next
        /\ \A i \in DOMAIN e :
              e[i].op \in {"m", "l", "c"} => (c < i /\ i <= c + Len(NonClose(data)))

\* C10 as stated: whatever the fill and stroke, a draw_path call emits the
\* operators of the path's segments in order after its cm and before its
\* paint operator.
C10_GeometryForEveryPath ==
    [][TopIs("Path") =>
          GeometryAfterCm(Emitted, tree.nodes[Head(stack).n].data, PaintOps \cup {"h"})
      ]_vars

\* the operator names of a sequence of operators
OpNames(e) == [i \in DOMAIN e |-> e[i].op]

\* the resource table of the layer draw_svg writes to
Patterns == doc.pages[DrawPage].layers[DrawLayer].patterns

\* C11: a draw_path call on a path whose fill links to a linear gradient of
\* the scene's definitions emits the geometry, then h, W, n and one sh that
\* names the pattern registered for the gradient, and none of f, b, s, S,
\* whatever the stroke.
C11_GradientPaint ==
    [][(/\ TopIs("Path")
        /\ tree.nodes[Head(stack).n].fill.kind = "Link"
        /\ HasDef(tree, tree.nodes[Head(stack).n].fill.id)
        /\ tree.defs[tree.nodes[Head(stack).n].fill.id].kind = "LinearGradient")
       => LET data == tree.nodes[Head(stack).n].data
              n    == Len(NonClose(data))
          IN  /\ GeometryAfterCm(Emitted, data, {"h"})
              /\ \E c \in DOMAIN Emitted :
                    /\ Emitted[c].op = "cm"
                    /\ Len(Emitted) >= c + n + 4
                    /\ OpNames(SubSeq(Emitted, c + n + 1, c + n + 4)) = <<"h", "W", "n", "sh">>
                    /\ Len(Patterns') = Len(Patterns) + 1
                    /\ Emitted[c + n + 4].args = <<Name(<<"P", Len(Patterns')>>)>>
              /\ CountOp(Emitted, Len(Emitted), "sh") = 1
              /\ \A i \in DOMAIN Emitted : Emitted[i].op \notin {"f", "b", "s", "S"}
      ]_vars

\* the number of operators in the layers before layer j of page i
OffsetOf(i, j) == SumLen([k \in 1..(j - 1) |-> doc.pages[i].layers[k].operations])

\* C12: the Contents stream of every exported page is the concatenation of
\* the buffers of the page's layers in registration order: each buffer sits
\* whole at the place the earlier layers leave it, nothing else is in the
\* stream, and no operator of another page is.
C12_ContentsIsConcatenation ==
    \A f \in Exported :
        \A i \in DOMAIN doc.pages :
            LET c == MergedStream(f, i)
            IN  /\ Len(c) = SumLen([j \in DOMAIN doc.pages[i].layers |->
                                        doc.pages[i].layers[j].operations])
                /\ \A j \in DOMAIN doc.pages[i].layers :
                      SubSeq(c, OffsetOf(i, j) + 1,
                                OffsetOf(i, j) + Len(doc.pages[i].layers[j].operations))
                          = doc.pages[i].layers[j].operations
                /\ \A k \in DOMAIN c : c[k].args[1] = Integer(i)

\* an export of two pages, the first of two layers, every layer with two
\* operators
C12_Witness ==
    /\ Exported # {}
    /\ Len(doc.pages) = 2
    /\ Len(doc.pages[1].layers) = 2
    /\ \A i \in DOMAIN doc.pages :
          \A j \in DOMAIN doc.pages[i].layers : Len(doc.pages[i].layers[j].operations) = 2

\* C13: an export holds one font dictionary when a font was registered and
\* none otherwise; when it holds one, the Resources of every page refer to
\* it by its id, and no further font dictionary exists.
C13_SharedFontDictionary ==
    \A f \in Exported :
        LET objs  == GraphOf(f).objects
            dicts == ObjectsOfType(objs, "FontDict")
        IN  /\ Cardinality(dicts) = (IF doc.fonts = <<>> THEN 0 ELSE 1)
            /\ Cardinality(ObjectsOfType(objs, "Font")) = Len(doc.fonts)
            /\ \A k \in ObjectsOfType(objs, "Page") :
                  IF doc.fonts = <<>>
                  THEN \A m \in DOMAIN objs[k].Resources :
                          objs[objs[k].Resources[m].id].dict.Font = <<>>
                  ELSE /\ Len(objs[k].Resources) = 1
                       /\ Len(objs[objs[k].Resources[1].id].dict.Font) = 1
                       /\ objs[objs[k].Resources[1].id].dict.Font[1].id \in dicts
                       /\ Len(objs[objs[objs[k].Resources[1].id].dict.Font[1].id].dict)
                              = Len(doc.fonts)

\* an export of two pages from a document with two fonts registered
C13_Witness ==
    /\ Exported # {}
    /\ Len(doc.pages) = 2
    /\ Len(doc.fonts) = 2

\* the page object of page i in the f-th export
PageObject(f, i) ==
    LET objs == GraphOf(f).objects
    IN  objs[objs[objs[GraphOf(f).trailer.Root.id].Pages.id].Kids[i].id]

\* a layer of page i has a resource
HasLayerResources(i) ==
    \E j \in DOMAIN doc.pages[i].layers : doc.pages[i].layers[j].patterns # <<>>

\* C14: an exported page has a Resources entry exactly when one of its
\* layers has a resource or a font is registered; the export holds one
\* resources object per such page and none for the others.
C14_ResourcesIffNonEmpty ==
    \A f \in Exported :
        /\ \A i \in DOMAIN doc.pages :
              /\ Len(PageObject(f, i).Resources) <= 1
              /\ Len(PageObject(f, i).Resources) = 1
                    <=> (HasLayerResources(i) \/ doc.fonts # <<>>)
        /\ Cardinality(ObjectsOfType(GraphOf(f).objects, "Resources"))
              = Cardinality({i \in DOMAIN doc.pages : HasLayerResources(i) \/ doc.fonts # <<>>})

\* an export without fonts of two pages, the first with a pattern in a
\* layer and the second without resources
C14_Witness ==
    /\ Exported # {}
    /\ doc.fonts = <<>>
    /\ Len(doc.pages) = 2
    /\ HasLayerResources(1)
    /\ ~HasLayerResources(2)
    /\ \E f \in Exported :
          Len(PageObject(f, 1).Resources) = 1 /\ Len(PageObject(f, 2).Resources) = 0


\* C15: the trailer ID of every exported file is the pair (document id,
\* instance id); the document id is the one last given to with_document_id,
\* and without such a call the 32-character identifier generated at creation;
\* the instance id is the one given to with_instance_id, and without one a
\* 32-character identifier generated during save
IsGenerated(id, at) == ~id.given /\ id.at = at /\ id.len = 32 /\ id.text = ""

C15_IdsOfState ==
    /\ ret.call = "with_document_id" => doc.document_id = GivenId(ret.name)
    /\ ret.call = "with_instance_id" => doc.instance_id = Some(GivenId(ret.name))
    /\ doc.document_id.given \/ IsGenerated(doc.document_id, "new")
    /\ \A f \in DOMAIN files :
          ~files[f].graph.panicked =>
             LET ID == files[f].graph.inner_doc.trailer.ID
             IN  /\ Len(ID) = 2
                 /\ ID[1] = doc.document_id
                 /\ IF doc.instance_id = None
                    THEN IsGenerated(ID[2], "save")
                    ELSE ID[2] = doc.instance_id[1] /\ ID[2].given

C15_IdsOfStep ==
    /\ ret'.call # "with_document_id" => doc'.document_id = doc.document_id
    /\ ret'.call # "with_instance_id" => doc'.instance_id = doc.instance_id
    /\ ret.call = "none" /\ ret'.call # "with_document_id" => IsGenerated(doc'.document_id, "new")
    /\ ret.call = "none" /\ ret'.call # "with_instance_id" => doc'.instance_id = None

C15_TrailerIds == [](C15_IdsOfState) /\ [][C15_IdsOfStep]_vars

C15_Witness ==
    \E f \in DOMAIN files :
       /\ ~files[f].graph.panicked
       /\ files[f].graph.inner_doc.trailer.ID[1].given
       /\ ~files[f].graph.inner_doc.trailer.ID[2].given

\* C16: a call of add_external_font whose font data cannot be read or parsed
\* returns the error and leaves the document as it was: the same font table,
\* no object id allocated
C16_FailedFontLeavesDocument ==
    [][ret'.call = "add_external_font" /\ ~ret'.ok =>
         /\ doc'.fonts = doc.fonts
         /\ doc'.inner_doc.max_id = doc.inner_doc.max_id
         /\ doc' = doc]_vars

C16_Witness ==
    /\ ret.call = "add_external_font"
    /\ ~ret.ok
    /\ Len(doc.fonts) = 1
    /\ handle = "live"

\* C17: save fails only when save_to reports an I/O error and then returns
\* that error; nothing before the serialization fails, and when save_to
\* succeeds save returns Ok
C17_SaveFailsOnlyOnIo ==
    /\ \A f \in DOMAIN files :
          /\ ~files[f].graph.panicked
          /\ files[f].calls # <<>> /\ files[f].calls[Len(files[f].calls)] = "save_to"
          /\ files[f].result = (IF files[f].io THEN "Ok" ELSE "Err")
    /\ ret.call = "save" => /\ files # <<>>
                            /\ ret.name = files[Len(files)].result
                            /\ ret.ok = files[Len(files)].io

C17_Witness ==
    /\ ret.call = "save"
    /\ ~ret.ok
    /\ files[1].result = "Err"
    /\ Len(doc.pages) = MaxPages
    /\ Len(doc.fonts) > 0
    /\ UserObjects(doc) # {}

\* C18 as stated: on every export the store prunes unreferenced objects,
\* removes zero-length streams and compresses, in this order, between the
\* wiring of the graph and the serialization; no graph is serialized that
\* skipped them
C18_AlwaysPostProcessed ==
    \A f \in DOMAIN files :
       files[f].calls = <<"prune_objects", "delete_zero_length_streams", "compress", "save_to">>

\* C18 as the code has it: an export of a release build without the
\* less-optimization feature runs the three passes in this order and then
\* serializes; an export of any other build serializes the graph as wired,
\* none of the passes run
C18_PostProcessedInRelease ==
    \A f \in DOMAIN files :
       ~files[f].graph.panicked =>
          /\ files[f].release =>
                files[f].calls = <<"prune_objects", "delete_zero_length_streams", "compress", "save_to">>
          /\ ~files[f].release => files[f].calls = <<"save_to">>
          /\ files[f].post = SubSeq(files[f].calls, 1, Len(files[f].calls) - 1)

C18_Witness ==
    \E f \in DOMAIN files :
       /\ files[f].release
       /\ files[f].result = "Ok"
       /\ Len(files[f].calls) = 4
       /\ Len(doc.pages) > 1

\* C19: after with_title(t) the document can be exported, and the file
\* exported from it carries t both in the info dictionary and in the XML
\* metadata stream
InfoOf(f) == files[f].graph.inner_doc.objects[files[f].graph.inner_doc.trailer.Info.id]

XmpOf(f) ==
    {files[f].graph.inner_doc.objects[id] :
        id \in {k \in DOMAIN files[f].graph.inner_doc.objects :
                   files[f].graph.inner_doc.objects[k].Type = "Metadata"}}

C19_TitleReachesExport ==
    /\ ret.call = "with_title" => ENABLED Save
    /\ \A f \in DOMAIN files :
          ~files[f].graph.panicked =>
             /\ InfoOf(f).Title = doc.metadata.document_title
             /\ \A x \in XmpOf(f) : x.title = doc.metadata.document_title

\* C20: the page at position i has index i (counted from 0); add_page returns
\* the page count before the call, adds exactly one page and leaves the
\* earlier pages as they were; at export the lookup of the OCG entries by
\* position finds the entries of the page at that position
C20_IndexOfState ==
    /\ \A i \in DOMAIN doc.pages :
          /\ doc.pages[i].index = i - 1
          /\ FindOcg(OcgList(doc.pages, 1), i - 1) = Some(OcgList(doc.pages, 1)[i])
          /\ Len(OcgList(doc.pages, 1)[i].layers) = Len(doc.pages[i].layers)
    /\ \A f \in DOMAIN files :
          /\ ~files[f].graph.panicked
          /\ Len(files[f].graph.inner_doc.objects[files[f].graph.pages_id].Kids) = Len(doc.pages)

C20_IndexOfStep ==
    /\ Len(doc'.pages) # Len(doc.pages) => ret'.call = "add_page" /\ ret' # ret
    /\ ret'.call = "add_page" /\ ret' # ret =>
          /\ ret'.index = Len(doc.pages)
          /\ Len(doc'.pages) = Len(doc.pages) + 1
          /\ SubSeq(doc'.pages, 1, Len(doc.pages)) = doc.pages
          /\ doc'.pages[Len(doc'.pages)].index = ret'.index

C20_PageIndexIsPosition == [](C20_IndexOfState) /\ [][C20_IndexOfStep]_vars

C20_Witness ==
    /\ Len(files) = 1
    /\ Len(doc.pages) = 2
    /\ Len(doc.pages[1].layers) = 2
    /\ ~files[1].graph.panicked

\* C21: every operator draw_svg emits other than q and Q stands at a
\* graphics-state depth of at least one above the depth of the call; when the
\* call has returned every save is closed; and what a Path emits is one q,
\* its settings, transform, geometry and paint, and one Q, with no q or Q in
\* between, so that nothing of it is in effect afterwards
DepthBefore(ops, k) == CountOp(ops, k - 1, "q") - CountOp(ops, k - 1, "Q")

C21_DepthOfState ==
    /\ \A k \in DOMAIN Buffer :
          Buffer[k].op \notin {"q", "Q"} => DepthBefore(Buffer, k) >= 1
    /\ status = "returned" => DepthBefore(Buffer, Len(Buffer) + 1) = 0

C21_PathOfStep ==
    TopIs("Path") /\ status' # "panicked" =>
       /\ Len(Emitted) >= 3
       /\ Emitted[1].op = "q"
       /\ Emitted[Len(Emitted)].op = "Q"
       /\ \A k \in 2..(Len(Emitted) - 1) : Emitted[k].op \notin {"q", "Q"}
       /\ DepthBefore(Buffer', Len(Buffer') + 1) = DepthBefore(Buffer, Len(Buffer) + 1)

C22_OneBorrowAtATime ==
    /\ Len(cell.active) <= 1
    /\ ~cell.conflict
    /\ cell.todo = <<>> => cell.active = <<>>

\* a gradient of three stops in the middle of its nested add_object calls,
\* after a font was registered
C22_Witness ==
    /\ cell.op.name = "linear_gradient"
    /\ cell.active = <<"borrow_mut">>
    /\ Len(cell.todo) = 5
    /\ Len(doc.fonts) > 0

\* C23: however many page handles were taken, the document has exactly one
\* strong owner while the document handle is live, so the unwrap at the start
\* of save succeeds; once the handle is gone no strong reference is left, a
\* page handle taken before finds no document, and no step changes the
\* document or the exported files
C23_OwnersOfState ==
    /\ handle = "live" => cell.strong = 1
    /\ handle = "consumed" => cell.strong = 0 /\ ~Upgrades(cell)
    /\ \A f \in DOMAIN files : ~files[f].graph.panicked /\ files[f].calls # <<>>

C23_AfterSaveStep ==
    handle = "consumed" =>
       /\ doc' = doc
       /\ files' = files
       /\ ret'.call = "add_layer" => ~ret'.ok

C23_PageHandlesAreWeak == [](C23_OwnersOfState) /\ [][C23_AfterSaveStep]_vars

\* two page handles were alive at the export, and one was used afterwards
C23_Witness ==
    /\ cell.weak = 2
    /\ Len(files) = 1
    /\ files[1].result = "Ok"
    /\ ret.call = "add_layer"
    /\ ~ret.ok

\* C24: registering a font under a name the font table already has allocates
\* no object id and leaves the table and the document unchanged, the reference
\* returned naming the existing entry; registering under a new name allocates
\* exactly one id and adds exactly one entry, under that name and that id;
\* add_builtin_font never returns an error
C24_RegistrationOfStep ==
    /\ ret'.call = "add_builtin_font" => ret'.ok
    /\ ret'.call \in {"add_builtin_font", "add_external_font"} /\ ret'.ok =>
          /\ HasFont(doc', ret'.name)
          /\ IF HasFont(doc, ret'.name)
             THEN doc' = doc
             ELSE /\ Len(doc'.fonts) = Len(doc.fonts) + 1
                  /\ SubSeq(doc'.fonts, 1, Len(doc.fonts)) = doc.fonts
                  /\ doc'.fonts[Len(doc'.fonts)] =
                        [name |-> ret'.name, inner_obj |-> doc.inner_doc.max_id + 1]
                  /\ doc'.inner_doc.max_id = doc.inner_doc.max_id + 1
                  /\ doc'.inner_doc.objects = doc.inner_doc.objects
                  /\ doc'.pages = doc.pages

C24_NamesOfState ==
    \A i, j \in DOMAIN doc.fonts : doc.fonts[i].name = doc.fonts[j].name => i = j

C24_RegistrationIdempotent == [](C24_NamesOfState) /\ [][C24_RegistrationOfStep]_vars

\* Helvetica, registered first, was registered again after a second font
C24_Witness ==
    /\ ret.call = "add_builtin_font"
    /\ ret.name = "Helvetica"
    /\ Len(doc.fonts) = 2
    /\ doc.fonts[1].name = "Helvetica"
    /\ doc.inner_doc.max_id = 2

\* C25: random_character_string_32 terminates from every seed and returns
\* exactly 32 characters, each of 'A'..'J', one per decimal digit of the
\* successive values of rand(); every call of rand() advances the seed by
\* exactly 21, wrapping, and no two calls read the same seed
Increment(x) ==
    LET zeros == {i \in DOMAIN x : x[i] = 0}
        k     == IF zeros = {} THEN Len(x) + 1 ELSE CHOOSE i \in zeros : \A j \in zeros : i <= j
    IN  [i \in DOMAIN x |-> IF i < k THEN 0 ELSE IF i = k THEN 1 ELSE x[i]]

RECURSIVE Incremented(_, _)
Incremented(x, n) == IF n = 0 THEN x ELSE Incremented(Increment(x), n - 1)

\* the word that a run of digit characters denotes, the highest digit first
RECURSIVE Denoted(_, _)
Denoted(chars, acc) ==
    IF chars = <<>> THEN acc
    ELSE CHOOSE word \in {Denoted(rest, more) :
                              rest \in {Tail(chars)},
                              more \in {WrappingAdd(WrappingAdd(Shl(acc, 3), Shl(acc, 1)),
                                                    FromNat(Head(chars) - 65, Len(acc)))}} : TRUE

C25_StringOfState ==
    /\ Len(rng.final_string) <= MAX_CHARS
    /\ \A i \in DOMAIN rng.final_string : rng.final_string[i] \in 65..74
    /\ rng.strings > 0 => Len(rng.out) = 32 /\ \A i \in DOMAIN rng.out : rng.out[i] \in 65..74
    /\ ~rng.reread
    /\ rng.seed \notin rng.read

C25_RandOfStep ==
    rng'.seed # rng.seed \/ rng'.final_string # rng.final_string =>
       \/ rng.pc = "idle" /\ rng'.final_string = <<>> /\ rng'.seed = rng.seed
       \/ /\ rng'.seed = Incremented(rng.seed, 21)
          /\ Len(rng'.final_string) > Len(rng.final_string)
          /\ Len(rng'.final_string) - Len(rng.final_string) <= Len(rng.seed) \div 3
          /\ SubSeq(rng'.final_string, 1, Len(rng.final_string)) = rng.final_string
          /\ Len(rng'.final_string) < MAX_CHARS =>
                LET chars == SubSeq(rng'.final_string, Len(rng.final_string) + 1,
                                    Len(rng'.final_string))
                IN  /\ Denoted(chars, FromNat(0, Len(rng.seed))) = Xorshift(rng.seed)
                    /\ Len(chars) > 1 => chars[1] # 65

C25_RandomString ==
    /\ [](C25_StringOfState)
    /\ [][C25_RandOfStep]_vars
    /\ (rng.pc = "loop") ~> (rng.pc = "idle" /\ Len(rng.out) = 32)

\* two strings were generated while the seed wrapped around
C25_Witness ==
    /\ rng.strings = 2
    /\ rng.pc = "idle"
    /\ Len(rng.seed) = 64
    /\ \E x \in rng.read : x = NotWord(FromNat(20, 64))
    /\ \E x \in rng.read : IsZero(x)
====
